---- MODULE Spec2Model ----
(***************************************************************************)
(* The temporal versioning and consistency rules of the HoM schema         *)
(* (db/migrations: companies, employees, employee_assignment_history,     *)
(* metric_configs, time_entries, events and the trigger                    *)
(* set_employee_external_id), as a state machine whose operations are the  *)
(* SQL statements the ingestion pipeline issues against these tables.      *)
(***************************************************************************)
EXTENDS Integers, Sequences, FiniteSets, TLC

(* ------------------------------ bounds -------------------------------- *)

\* Calendar days are 0..MaxDate.
MaxDate == 2
\* Rows ever inserted into the versioned tables (the SERIAL ids handed out).
MaxRows == 3
\* Versioned tables one behaviour inserts into (the tables share no state).
MaxTables == 1
\* Scope keys are 1..MaxKey (in jsonb's key order), scalar values 1..MaxVal,
\* and a scope is written with at most MaxScopeLen members.
MaxKey == 2
MaxVal == 2
MaxScopeLen == 2
\* employees rows ever created, and time_entries and events rows ever inserted.
MaxEmployees == 1
MaxFacts == 2
\* Work days and event days are 0..MaxWorkDate.
MaxWorkDate == 1
\* Largest minute value a writer supplies (the smallest is -1).
MaxMinutes == 1
\* Last day of the daily-facts runs.
MaxFactDate == 0
\* Versioned records written in a run that also deletes in the directory.
MaxAuditRows == 2
\* Sends of one chat, and chunks read from one response.
MaxSends == 2
MaxChunks == 1
\* Sentences of the mock stream, and the last reading of Date.now().
MaxSentences == 1
MaxInstant == 4
\* Message ids a caller of ContextManager passes, messages kept in one
\* conversation, and sessions created in a run.
MaxMessageId == 2
MaxMessages == 2
MaxSessions == 3
\* Writers running the supersession protocol concurrently.
MaxWriters == 2
\* Assignment ids drawn in a run of concurrent supersessions.
MaxTxRows == 4

(* ------------------------------ values -------------------------------- *)

\* SQL NULL (also JSON null inside a scope): no date, id or minute count.
NULL == -99

Date == 0..MaxDate

\* 'infinity'::date: later than every calendar day.
Infinity == MaxDate + 1

\* Ids of companies rows.
CompanyIds == {1, 2}

\* employees rows: id -> company_id, external_id (NULL: no such employee).
EmployeeIds == {1, 2}

(* ----------------------------- daterange ------------------------------ *)

\* A range value: err (the constructor raised), empty, and the bounds of
\* the canonical '[)' form.  An unbounded lower bound is below every day.
Unbounded == 0 - Infinity

\* daterange(lo, hi, '[)'): "range lower bound must be less than or equal to
\* range upper bound" when lo > hi, the empty range when lo = hi.
daterange(lo, hi) ==
    IF lo > hi
    THEN [err |-> TRUE, empty |-> FALSE, lower |-> lo, upper |-> hi]
    ELSE [err |-> FALSE, empty |-> (lo = hi), lower |-> lo, upper |-> hi]

COALESCE(v, d) == IF v = NULL THEN d ELSE v

\* The generated column effective_range of both versioned tables:
\* daterange(start, COALESCE(end, 'infinity'::date), '[)').  The constructor
\* takes a NULL start as an unbounded bound; NOT NULL rejects the row after.
effective_range(start, end) ==
    daterange(IF start = NULL THEN Unbounded ELSE start, COALESCE(end, Infinity))

\* As &&, but with the upper bounds taken as inclusive.
RangeOverlapsInclusive(r1, r2) ==
    /\ ~r1.empty /\ ~r2.empty
    /\ r1.lower <= r2.upper /\ r2.lower <= r1.upper

\* The range operator &&: an empty range overlaps nothing.
RangeOverlaps(r1, r2) ==
    /\ ~r1.empty /\ ~r2.empty
    /\ r1.lower < r2.upper /\ r2.lower < r1.upper

(* ------------------------- state of the database ---------------------- *)

VARIABLES
    companies,      \* ids of the companies rows
    employees,      \* employees rows: id -> [company_id, external_id] or NoEmployee
    eah,            \* employee_assignment_history rows
    metric_configs, \* metric_configs rows
    id_seq,         \* the SERIAL sequences of the two tables: table -> last id
    res,            \* the last statement and its outcome
    fp_in,          \* two scopes as written, to be fingerprinted
    fp_out,         \* their scope_hash values, once computed
    time_entries,   \* time_entries rows
    events,         \* events rows
    tx,             \* writer -> its open supersession transaction
    chat,           \* the ChatInterface component: its state, closures and tasks
    cm,             \* ContextManager: the index in localStorage and the last call
    dash            \* the Dashboard component: its state and its load effects

NoEmployee == [company_id |-> NULL, external_id |-> NULL]

\* The writers of the ingestion, and a writer with no transaction open.
Writers == 1..MaxWriters
NoRow == [id |-> 0]
Idle == [pc |-> "idle", pred |-> 0, row |-> NoRow]
NoTransactions == [w \in Writers |-> Idle]

\* The ChatInterface before it is mounted.
NoChat == [mounted |-> FALSE]

\* The metrics of the dashboard: the keys of its cards.
Metrics == {"headcount", "absenteeism_rate"}

\* localStorage with nothing under STORAGE_KEY, and no call made yet.
NoSession == [sessionId |-> 0]
NoCall == [op |-> "none"]
NoSessions == [index |-> [m \in Metrics |-> NoSession], call |-> NoCall, issued |-> 0]

\* The Dashboard before it is mounted.
NoDashboard == [mounted |-> FALSE]

\* Outcomes of a statement: "ok", "no_row" (an UPDATE that matched no row),
\* or the error that aborted it, named by the violated constraint.
OK == "ok"
NoRowMatched == "no_row"
DataException == "range_bounds"
NotNullViolation == "not_null_violation"
ForeignKeyViolation == "foreign_key_violation"
ExAssignment == "ex_employee_assignment_no_overlap"
ExMetricConfigs == "ex_metric_configs_no_overlap"

RowIds(tbl) == {r.id : r \in tbl}
RowById(tbl, id) == CHOOSE r \in tbl : r.id = id

\* SERIAL PRIMARY KEY: nextval of the table's sequence.
NextId(tbl) == id_seq[tbl] + 1

\* The versioned rows the model lets the writers insert into table tbl.
RowsLeft(tbl) ==
    /\ id_seq.eah + id_seq.mc < MaxRows
    /\ Cardinality({t \in {"eah", "mc"} : id_seq[t] > 0 \/ t = tbl}) <= MaxTables

(* ------------------- employee_assignment_history ---------------------- *)

\* As the exclusion constraint below, but with effective_range WITH =.
ExcludesEAHEqualRange(a, b) ==
    /\ a.company_id = b.company_id
    /\ a.employee_id = b.employee_id
    /\ effective_range(a.effective_start, a.effective_end)
         = effective_range(b.effective_start, b.effective_end)

\* EXCLUDE USING gist (company_id WITH =, employee_id WITH =,
\*                     effective_range WITH &&)
ExcludesEAH(a, b) ==
    /\ a.company_id = b.company_id
    /\ a.employee_id = b.employee_id
    /\ RangeOverlaps(effective_range(a.effective_start, a.effective_end),
                     effective_range(b.effective_start, b.effective_end))

\* The constraints of the table on a new or updated row, in the order the
\* executor applies them: generated column, NOT NULL, exclusion index,
\* foreign keys.  others: the rows the new version is checked against.
CheckEAH(row, others, fk) ==
    IF effective_range(row.effective_start, row.effective_end).err THEN DataException
    ELSE IF NULL \in {row.company_id, row.employee_id, row.effective_start}
    THEN NotNullViolation
    ELSE IF \E r \in others : ExcludesEAH(row, r) THEN ExAssignment
    ELSE IF fk /\ ( \/ row.company_id \notin companies
                    \/ row.employee_id \notin DOMAIN employees
                    \/ employees[row.employee_id] = NoEmployee )
    THEN ForeignKeyViolation
    ELSE OK

\* INSERT INTO employee_assignment_history (company_id, employee_id,
\*   effective_start, effective_end) VALUES (...)
NewRowEAH(c, e, s, en) ==
    [id |-> NextId("eah"), company_id |-> c, employee_id |-> e,
     effective_start |-> s, effective_end |-> en]

InsertEAH(c, e, s, en) ==
    LET row == NewRowEAH(c, e, s, en)
        out == CheckEAH(row, eah, TRUE)
    IN /\ RowsLeft("eah")
       /\ eah' = IF out = OK THEN eah \cup {row} ELSE eah
       /\ id_seq' = IF out = OK THEN [id_seq EXCEPT !.eah = row.id] ELSE id_seq
       /\ res' = [op |-> "insert", tbl |-> "eah", outcome |-> out]
       /\ UNCHANGED <<companies, employees, metric_configs>>

\* UPDATE employee_assignment_history SET effective_end = at WHERE id = id
UpdateEndEAH(id, at) ==
    IF id \notin RowIds(eah)
    THEN /\ res' = [op |-> "update", tbl |-> "eah", outcome |-> NoRowMatched]
         /\ UNCHANGED <<companies, employees, eah, metric_configs, id_seq>>
    ELSE LET old == RowById(eah, id)
             new == [old EXCEPT !.effective_end = at]
             out == CheckEAH(new, eah \ {old}, FALSE)
         IN /\ eah' = IF out = OK THEN (eah \ {old}) \cup {new} ELSE eah
            /\ res' = [op |-> "update", tbl |-> "eah", outcome |-> out]
            /\ UNCHANGED <<companies, employees, metric_configs, id_seq>>

(* ------------------------------ scope --------------------------------- *)

\* A scope as the writer gives it: the members of a JSON object in the order
\* written, each <<key, value>>; keys are numbered in jsonb's key order and a
\* value is a scalar or NULL (JSON null).
Key(m) == m[1]
Val(m) == m[2]

\* The value the jsonb parser keeps for key k: the last member written.
LastVal(raw, k) ==
    LET I == {i \in 1..Len(raw) : Key(raw[i]) = k}
    IN Val(raw[CHOOSE i \in I : \A j \in I : j <= i])

\* '...'::jsonb: an object holds each key once (the last value wins), its
\* keys kept sorted.  Built from key k upwards to key n.
RECURSIVE jsonb_from(_, _, _)
jsonb_from(raw, k, n) ==
    IF k > n THEN <<>>
    ELSE (IF \E i \in 1..Len(raw) : Key(raw[i]) = k
          THEN <<<<k, LastVal(raw, k)>>>> ELSE <<>>) \o jsonb_from(raw, k + 1, n)

MaxKeyOf(raw) ==
    IF raw = <<>> THEN 0
    ELSE CHOOSE k \in {Key(raw[i]) : i \in 1..Len(raw)} :
            \A i \in 1..Len(raw) : Key(raw[i]) <= k

jsonb_in(raw) == jsonb_from(raw, 1, MaxKeyOf(raw))

\* As jsonb_strip_nulls, but keeping the null-valued members.
jsonb_keep_nulls(obj) == obj

\* jsonb_strip_nulls: the object without its null-valued members.
jsonb_strip_nulls(obj) == SelectSeq(obj, LAMBDA m : Val(m) # NULL)

\* jsonb::text: the members in stored order, as the tokens key, value.
RECURSIVE jsonb_out(_)
jsonb_out(obj) ==
    IF obj = <<>> THEN <<>>
    ELSE <<Key(Head(obj)), Val(Head(obj))>> \o jsonb_out(Tail(obj))

\* digest(text, 'sha256'), taken as collision-free: the tokens read as the
\* digits (none of them zero) of a number in a base above every token.
DigestBase == MaxKey + MaxVal + 3

RECURSIVE digest_from(_, _)
digest_from(text, acc) ==
    IF text = <<>> THEN acc
    ELSE digest_from(Tail(text), acc * DigestBase + Head(text) + 2)

digest(text) == digest_from(text, 0)

\* Generated columns of metric_configs.
scope_canonical(scope) == jsonb_strip_nulls(scope)
scope_hash(scope) == digest(jsonb_out(jsonb_strip_nulls(scope)))

(* --------------------------- metric_configs --------------------------- *)

\* As the exclusion constraint below, without scope_hash WITH =.
ExcludesMCAnyScope(a, b) ==
    /\ a.company_id = b.company_id
    /\ a.metric_key = b.metric_key
    /\ RangeOverlaps(effective_range(a.effective_from, a.effective_to),
                     effective_range(b.effective_from, b.effective_to))

\* EXCLUDE USING gist (company_id WITH =, metric_key WITH =,
\*                     scope_hash WITH =, effective_range WITH &&)
ExcludesMC(a, b) ==
    /\ a.company_id = b.company_id
    /\ a.metric_key = b.metric_key
    /\ scope_hash(a.scope) = scope_hash(b.scope)
    /\ RangeOverlaps(effective_range(a.effective_from, a.effective_to),
                     effective_range(b.effective_from, b.effective_to))

CheckMC(row, others, fk) ==
    IF effective_range(row.effective_from, row.effective_to).err THEN DataException
    ELSE IF NULL \in {row.company_id, row.effective_from}
    THEN NotNullViolation
    ELSE IF \E r \in others : ExcludesMC(row, r) THEN ExMetricConfigs
    ELSE IF fk /\ row.company_id \notin companies THEN ForeignKeyViolation
    ELSE OK

\* INSERT INTO metric_configs (company_id, metric_key, thresholds, scope,
\*   effective_from, effective_to) VALUES (...)
NewRowMC(c, k, raw, s, en) ==
    [id |-> NextId("mc"), company_id |-> c, metric_key |-> k,
     scope |-> jsonb_in(raw), effective_from |-> s, effective_to |-> en]

InsertMC(c, k, raw, s, en) ==
    LET row == NewRowMC(c, k, raw, s, en)
        out == CheckMC(row, metric_configs, TRUE)
    IN /\ RowsLeft("mc")
       /\ metric_configs' = IF out = OK THEN metric_configs \cup {row} ELSE metric_configs
       /\ id_seq' = IF out = OK THEN [id_seq EXCEPT !.mc = row.id] ELSE id_seq
       /\ res' = [op |-> "insert", tbl |-> "mc", outcome |-> out]
       /\ UNCHANGED <<companies, employees, eah>>

\* UPDATE metric_configs SET effective_to = at WHERE id = id
UpdateEndMC(id, at) ==
    IF id \notin RowIds(metric_configs)
    THEN /\ res' = [op |-> "update", tbl |-> "mc", outcome |-> NoRowMatched]
         /\ UNCHANGED <<companies, employees, eah, metric_configs, id_seq>>
    ELSE LET old == RowById(metric_configs, id)
             new == [old EXCEPT !.effective_to = at]
             out == CheckMC(new, metric_configs \ {old}, FALSE)
         IN /\ metric_configs' = IF out = OK THEN (metric_configs \ {old}) \cup {new}
                                 ELSE metric_configs
            /\ res' = [op |-> "update", tbl |-> "mc", outcome |-> out]
            /\ UNCHANGED <<companies, employees, eah, id_seq>>

(* ------------------------- the versioned store ------------------------ *)

vars == <<companies, employees, eah, metric_configs, id_seq, res, fp_in, fp_out,
          time_entries, events, tx, chat, cm, dash>>

\* What the statements against the versioned tables leave alone.
notVersioned == <<fp_in, fp_out, time_entries, events, tx, chat, cm, dash>>

NoStatement == [op |-> "none", tbl |-> "none", outcome |-> OK]

\* The directory after the employee sync: both companies, employee 1 of
\* company 1; no employee 2.
InitDirectory ==
    /\ companies = CompanyIds
    /\ employees = [e \in EmployeeIds |->
                      IF e = 1 THEN [company_id |-> 1, external_id |-> 1]
                      ELSE NoEmployee]

Init ==
    /\ InitDirectory
    /\ eah = {}
    /\ metric_configs = {}
    /\ id_seq = [eah |-> 0, mc |-> 0, te |-> 0, ev |-> 0]
    /\ res = NoStatement
    /\ fp_in = <<>>
    /\ fp_out = <<>>
    /\ time_entries = {}
    /\ events = {}
    /\ tx = NoTransactions
    /\ chat = NoChat
    /\ cm = NoSessions
    /\ dash = NoDashboard

\* What the writers supply.
StartInputs == Date \cup {NULL}
EndInputs == Date \cup {NULL}
MetricKeys == {"headcount"}
ScopeInputs == {<<>>, << <<1, NULL>> >>, << <<1, 1>> >>}

WriteAssignment ==
    \E c \in CompanyIds, e \in EmployeeIds, s \in StartInputs, en \in EndInputs :
        InsertEAH(c, e, s, en) /\ UNCHANGED notVersioned

EndAssignment ==
    \E id \in 1..MaxRows, at \in EndInputs :
        UpdateEndEAH(id, at) /\ UNCHANGED notVersioned

WriteMetricConfig ==
    \E k \in MetricKeys, raw \in ScopeInputs, s \in StartInputs, en \in EndInputs :
        InsertMC(1, k, raw, s, en) /\ UNCHANGED notVersioned

EndMetricConfig ==
    \E id \in 1..MaxRows, at \in EndInputs :
        UpdateEndMC(id, at) /\ UNCHANGED notVersioned

Next ==
    \/ WriteAssignment
    \/ EndAssignment
    \/ WriteMetricConfig
    \/ EndMetricConfig

Spec == Init /\ [][Next]_vars

(* ---------------------- the scope canonicalizer ----------------------- *)

ScopeKeys == 1..MaxKey
ScopeVals == (1..MaxVal) \cup {NULL}

\* Every scope a writer may write: up to MaxScopeLen members in any order.
RECURSIVE RawScopesOfLen(_)
RawScopesOfLen(n) ==
    IF n = 0 THEN {<<>>}
    ELSE {Append(q, <<k, v>>) : q \in RawScopesOfLen(n - 1), k \in ScopeKeys, v \in ScopeVals}

RawScopes == UNION {RawScopesOfLen(n) : n \in 0..MaxScopeLen}

InitFP ==
    /\ InitDirectory
    /\ eah = {}
    /\ metric_configs = {}
    /\ id_seq = [eah |-> 0, mc |-> 0, te |-> 0, ev |-> 0]
    /\ res = NoStatement
    /\ fp_in \in RawScopes \X RawScopes
    /\ fp_out = <<>>
    /\ time_entries = {}
    /\ events = {}
    /\ tx = NoTransactions
    /\ chat = NoChat
    /\ cm = NoSessions
    /\ dash = NoDashboard

\* The scope_hash the table computes for each of the two scopes.
Canonicalize ==
    /\ fp_out = <<>>
    /\ fp_out' = <<scope_hash(jsonb_in(fp_in[1])), scope_hash(jsonb_in(fp_in[2]))>>
    /\ UNCHANGED <<companies, employees, eah, metric_configs, id_seq, res, fp_in,
                   time_entries, events, tx, chat, cm, dash>>

NextFP == Canonicalize

SpecFP == InitFP /\ [][NextFP]_vars

(* --------------------- employees (the directory) ---------------------- *)

ExternalIds == {1, 2}

UqEmployees == "uq_employees_company_external"

EmployeeRows == {e \in EmployeeIds : employees[e] # NoEmployee}

\* NOT NULL company_id and external_id, UNIQUE (company_id, external_id),
\* FOREIGN KEY (company_id) REFERENCES companies(id).
CheckEmployee(e, row) ==
    IF NULL \in {row.company_id, row.external_id} THEN NotNullViolation
    ELSE IF \E o \in EmployeeRows \ {e} : employees[o] = row THEN UqEmployees
    ELSE IF row.company_id \notin companies THEN ForeignKeyViolation
    ELSE OK

\* INSERT INTO employees (external_id, company_id, ...) VALUES (...)
InsertEmployee(c, x) ==
    LET e == Cardinality(EmployeeRows) + 1
        row == [company_id |-> c, external_id |-> x]
        out == CheckEmployee(e, row)
    IN /\ e <= MaxEmployees
       /\ employees' = IF out = OK THEN [employees EXCEPT ![e] = row] ELSE employees
       /\ res' = [op |-> "insert", tbl |-> "employees", outcome |-> out]
       /\ UNCHANGED <<companies, time_entries, events, id_seq>>

\* UPDATE employees SET company_id = c, external_id = x WHERE id = e
UpdateEmployee(e, c, x) ==
    LET row == [company_id |-> c, external_id |-> x]
        out == IF e \notin EmployeeRows THEN NoRowMatched ELSE CheckEmployee(e, row)
    IN /\ employees' = IF out = OK THEN [employees EXCEPT ![e] = row] ELSE employees
       /\ res' = [op |-> "update", tbl |-> "employees", outcome |-> out]
       /\ UNCHANGED <<companies, time_entries, events, id_seq>>

(* ---------------- set_employee_external_id (the trigger) -------------- *)

EmployeeMissing == "employee_not_found_or_missing_external_id"
CompanyMismatch == "company_mismatch"

\* SELECT external_id, company_id INTO emp_external, emp_company
\*   FROM employees WHERE id = NEW.employee_id   (no row: both NULL)
SelectEmployee(id) ==
    IF id \in EmployeeRows THEN employees[id] ELSE NoEmployee

\* As the trigger function below, without the company check.
set_employee_external_id_unchecked(new) ==
    LET emp == SelectEmployee(new.employee_id)
    IN IF emp.external_id = NULL THEN [err |-> EmployeeMissing, row |-> new]
       ELSE [err |-> OK,
             row |-> [new EXCEPT !.employee_external_id = emp.external_id]]

\* As the trigger function below, without the exception for an employee
\* that is not found.
set_employee_external_id_lenient(new) ==
    LET emp == SelectEmployee(new.employee_id)
    IN IF /\ new.company_id # NULL /\ emp.company_id # NULL
          /\ new.company_id # emp.company_id
       THEN [err |-> CompanyMismatch, row |-> new]
       ELSE [err |-> OK,
             row |-> [new EXCEPT !.company_id = COALESCE(new.company_id, emp.company_id),
                                 !.employee_external_id = emp.external_id]]

\* As the trigger function below, with employee_external_id left as the
\* writer supplied it.
set_employee_external_id_unstamped(new) ==
    LET emp == SelectEmployee(new.employee_id)
    IN IF emp.external_id = NULL THEN [err |-> EmployeeMissing, row |-> new]
       ELSE IF /\ new.company_id # NULL /\ emp.company_id # NULL
               /\ new.company_id # emp.company_id
       THEN [err |-> CompanyMismatch, row |-> new]
       ELSE [err |-> OK,
             row |-> [new EXCEPT !.company_id = COALESCE(new.company_id, emp.company_id)]]

\* BEFORE INSERT OR UPDATE ... FOR EACH ROW: raises, or returns NEW with
\* company_id defaulted and employee_external_id stamped.
set_employee_external_id(new) ==
    LET emp == SelectEmployee(new.employee_id)
    IN IF emp.external_id = NULL THEN [err |-> EmployeeMissing, row |-> new]
       ELSE IF /\ new.company_id # NULL /\ emp.company_id # NULL
               /\ new.company_id # emp.company_id
       THEN [err |-> CompanyMismatch, row |-> new]
       ELSE [err |-> OK,
             row |-> [new EXCEPT !.company_id = COALESCE(new.company_id, emp.company_id),
                                 !.employee_external_id = emp.external_id]]

(* ---------------------------- time_entries ---------------------------- *)

UqDaily == "uq_time_entries_daily"
ChkNonneg == "chk_minutes_nonneg"
ChkConsistency == "chk_minutes_consistency"
ChkBounds == "chk_absenteeism_bounds"

WorkDates == 0..MaxWorkDate

\* The minute columns with their defaults: scheduled and absence NULL, the
\* others 0.
DefaultMinutes ==
    [scheduled_minutes |-> NULL, worked_minutes |-> 0, regular_minutes |-> 0,
     ot1_minutes |-> 0, ot2_minutes |-> 0, absence_minutes |-> NULL]

\* As chk_minutes_nonneg below, the nullable columns left out.
chk_minutes_nonneg_not_null_only(m) ==
    /\ m.worked_minutes >= 0 /\ m.regular_minutes >= 0
    /\ m.ot1_minutes >= 0 /\ m.ot2_minutes >= 0

chk_minutes_nonneg(m) ==
    /\ m.worked_minutes >= 0 /\ m.regular_minutes >= 0
    /\ m.ot1_minutes >= 0 /\ m.ot2_minutes >= 0
    /\ (m.scheduled_minutes = NULL \/ m.scheduled_minutes >= 0)
    /\ (m.absence_minutes = NULL \/ m.absence_minutes >= 0)

\* As chk_minutes_consistency below, the overtime tiers left out.
chk_minutes_consistency_regular_only(m) ==
    m.worked_minutes = m.regular_minutes

chk_minutes_consistency(m) ==
    m.worked_minutes = m.regular_minutes + m.ot1_minutes + m.ot2_minutes

\* As chk_absenteeism_bounds below, a missing absence value passing.
chk_absenteeism_bounds_absent_passes(m) ==
    \/ m.scheduled_minutes = NULL
    \/ m.absence_minutes = NULL
    \/ m.absence_minutes <= m.scheduled_minutes

\* As chk_absenteeism_bounds below, with < for <=.
chk_absenteeism_bounds_strict(m) ==
    \/ m.scheduled_minutes = NULL
    \/ (m.absence_minutes # NULL /\ m.absence_minutes < m.scheduled_minutes)

\* As chk_absenteeism_bounds below, without the case of no schedule.
chk_absenteeism_bounds_always(m) ==
    m.absence_minutes # NULL /\ m.absence_minutes <= m.scheduled_minutes

chk_absenteeism_bounds(m) ==
    \/ m.scheduled_minutes = NULL
    \/ (m.absence_minutes # NULL /\ m.absence_minutes <= m.scheduled_minutes)

\* As uq_time_entries_daily below, with the index missing.
uq_time_entries_daily_missing(row, others) == FALSE

\* UNIQUE (company_id, employee_id, work_date): another row holds the key.
uq_time_entries_daily(row, others) ==
    \E o \in others : /\ o.company_id = row.company_id
                      /\ o.employee_id = row.employee_id
                      /\ o.work_date = row.work_date

\* The row-level part of a write to time_entries, in the executor's order:
\* the BEFORE trigger, NOT NULL, the CHECK constraints (by name), the unique
\* index, the foreign keys.  Returns the outcome and the row as stored.
WriteTimeEntryRow(new, others) ==
    LET t == set_employee_external_id(new)
        row == t.row
        m == row.minutes
        out ==
          IF t.err # OK THEN t.err
          ELSE IF NULL \in {row.company_id, row.employee_id, row.work_date,
                            m.worked_minutes, m.regular_minutes,
                            m.ot1_minutes, m.ot2_minutes}
          THEN NotNullViolation
          ELSE IF ~chk_absenteeism_bounds(m) THEN ChkBounds
          ELSE IF ~chk_minutes_consistency(m) THEN ChkConsistency
          ELSE IF ~chk_minutes_nonneg(m) THEN ChkNonneg
          ELSE IF uq_time_entries_daily(row, others) THEN UqDaily
          ELSE IF row.company_id \notin companies \/ row.employee_id \notin EmployeeRows
          THEN ForeignKeyViolation
          ELSE OK
    IN [outcome |-> out, row |-> row]

NewTimeEntry(c, e, x, d, m) ==
    [id |-> NextId("te"), company_id |-> c, employee_id |-> e,
     employee_external_id |-> x, work_date |-> d, minutes |-> m]

FactsLeft == id_seq.te + id_seq.ev < MaxFacts

\* INSERT INTO time_entries (company_id, employee_id, employee_external_id,
\*   work_date, ...minutes) VALUES (...)
InsertTimeEntry(c, e, x, d, m) ==
    LET w == WriteTimeEntryRow(NewTimeEntry(c, e, x, d, m), time_entries)
    IN /\ FactsLeft
       /\ time_entries' = IF w.outcome = OK THEN time_entries \cup {w.row} ELSE time_entries
       /\ id_seq' = IF w.outcome = OK THEN [id_seq EXCEPT !.te = w.row.id] ELSE id_seq
       /\ res' = [op |-> "insert", tbl |-> "time_entries", outcome |-> w.outcome]
       /\ UNCHANGED <<companies, employees, events>>

\* UPDATE time_entries SET company_id = c, employee_id = e,
\*   employee_external_id = x, work_date = d, ...minutes WHERE id = id
UpdateTimeEntry(id, c, e, x, d, m) ==
    IF id \notin RowIds(time_entries)
    THEN /\ res' = [op |-> "update", tbl |-> "time_entries", outcome |-> NoRowMatched]
         /\ UNCHANGED <<companies, employees, time_entries, events, id_seq>>
    ELSE LET old == RowById(time_entries, id)
             w == WriteTimeEntryRow([NewTimeEntry(c, e, x, d, m) EXCEPT !.id = id],
                                    time_entries \ {old})
         IN /\ time_entries' = IF w.outcome = OK THEN (time_entries \ {old}) \cup {w.row}
                               ELSE time_entries
            /\ res' = [op |-> "update", tbl |-> "time_entries", outcome |-> w.outcome]
            /\ UNCHANGED <<companies, employees, events, id_seq>>

(* ------------------------------- events ------------------------------- *)

\* The row-level part of a write to events: the BEFORE trigger, NOT NULL
\* (company_id, event_date), the foreign keys.
WriteEventRow(new) ==
    LET t == set_employee_external_id(new)
        row == t.row
        out ==
          IF t.err # OK THEN t.err
          ELSE IF NULL \in {row.company_id, row.event_date} THEN NotNullViolation
          ELSE IF \/ row.company_id \notin companies
                  \/ (row.employee_id # NULL /\ row.employee_id \notin EmployeeRows)
          THEN ForeignKeyViolation
          ELSE OK
    IN [outcome |-> out, row |-> row]

NewEvent(c, e, x, d) ==
    [id |-> NextId("ev"), company_id |-> c, employee_id |-> e,
     employee_external_id |-> x, event_date |-> d]

\* INSERT INTO events (company_id, employee_id, employee_external_id,
\*   event_type, event_date) VALUES (...)
InsertEvent(c, e, x, d) ==
    LET w == WriteEventRow(NewEvent(c, e, x, d))
    IN /\ FactsLeft
       /\ events' = IF w.outcome = OK THEN events \cup {w.row} ELSE events
       /\ id_seq' = IF w.outcome = OK THEN [id_seq EXCEPT !.ev = w.row.id] ELSE id_seq
       /\ res' = [op |-> "insert", tbl |-> "events", outcome |-> w.outcome]
       /\ UNCHANGED <<companies, employees, time_entries>>

\* UPDATE events SET company_id = c, employee_id = e,
\*   employee_external_id = x, event_date = d WHERE id = id
UpdateEvent(id, c, e, x, d) ==
    IF id \notin RowIds(events)
    THEN /\ res' = [op |-> "update", tbl |-> "events", outcome |-> NoRowMatched]
         /\ UNCHANGED <<companies, employees, time_entries, events, id_seq>>
    ELSE LET old == RowById(events, id)
             w == WriteEventRow([NewEvent(c, e, x, d) EXCEPT !.id = id])
         IN /\ events' = IF w.outcome = OK THEN (events \ {old}) \cup {w.row} ELSE events
            /\ res' = [op |-> "update", tbl |-> "events", outcome |-> w.outcome]
            /\ UNCHANGED <<companies, employees, time_entries, id_seq>>

(* ------------------ ingestion: employees, facts, events --------------- *)

\* What the statements of the ingestion leave alone.
notIngestion == <<eah, metric_configs, fp_in, fp_out, tx, chat, cm, dash>>

\* Before the first employee sync: the companies exist, no employee does.
InitIngest ==
    /\ companies = CompanyIds
    /\ employees = [e \in EmployeeIds |-> NoEmployee]
    /\ eah = {}
    /\ metric_configs = {}
    /\ id_seq = [eah |-> 0, mc |-> 0, te |-> 0, ev |-> 0]
    /\ res = NoStatement
    /\ fp_in = <<>>
    /\ fp_out = <<>>
    /\ time_entries = {}
    /\ events = {}
    /\ tx = NoTransactions
    /\ chat = NoChat
    /\ cm = NoSessions
    /\ dash = NoDashboard

\* What the writers supply.
CompanyInputs == CompanyIds \cup {NULL}
EmployeeInputs == EmployeeIds \cup {NULL}
ExternalInputs == ExternalIds \cup {NULL}

SyncEmployee ==
    \E c \in CompanyIds, x \in ExternalIds :
        InsertEmployee(c, x) /\ UNCHANGED notIngestion

ResyncEmployee ==
    \E e \in EmployeeIds, c \in CompanyIds, x \in ExternalIds :
        UpdateEmployee(e, c, x) /\ UNCHANGED notIngestion

WriteTimeEntry ==
    \E c \in CompanyInputs, e \in EmployeeIds, x \in ExternalInputs, d \in WorkDates :
        InsertTimeEntry(c, e, x, d, DefaultMinutes) /\ UNCHANGED notIngestion

RewriteTimeEntry ==
    \E id \in 1..MaxFacts, c \in CompanyInputs, e \in EmployeeIds,
       x \in ExternalInputs, d \in WorkDates :
        UpdateTimeEntry(id, c, e, x, d, DefaultMinutes) /\ UNCHANGED notIngestion

WriteEvent ==
    \E c \in CompanyInputs, e \in EmployeeInputs, x \in ExternalInputs, d \in WorkDates :
        InsertEvent(c, e, x, d) /\ UNCHANGED notIngestion

RewriteEvent ==
    \E id \in 1..MaxFacts, c \in CompanyInputs, e \in EmployeeInputs,
       x \in ExternalInputs, d \in WorkDates :
        UpdateEvent(id, c, e, x, d) /\ UNCHANGED notIngestion

NextIngest ==
    \/ SyncEmployee
    \/ ResyncEmployee
    \/ WriteTimeEntry
    \/ RewriteTimeEntry
    \/ WriteEvent
    \/ RewriteEvent

SpecIngest == InitIngest /\ [][NextIngest]_vars

(* ------------------- deletes in the directory ------------------------- *)

RestrictViolation == "restrict_violation"

\* The employees some row of employee_assignment_history, time_entries or
\* events references (employee_id ... ON DELETE RESTRICT).
ReferencedEmployees ==
    {r.employee_id : r \in eah \cup time_entries \cup events}

\* DELETE FROM employees WHERE id = e
DeleteEmployee(e) ==
    LET out == IF e \notin EmployeeRows THEN NoRowMatched
               ELSE IF e \in ReferencedEmployees THEN RestrictViolation
               ELSE OK
    IN /\ employees' = IF out = OK THEN [employees EXCEPT ![e] = NoEmployee] ELSE employees
       /\ res' = [op |-> "delete", tbl |-> "employees", outcome |-> out]
       /\ UNCHANGED <<companies, eah, metric_configs, time_entries, events, id_seq>>

\* DELETE FROM companies WHERE id = c.  The delete cascades to the
\* employees of the company (fk_employees_company) and to every row that
\* names the company; the cascade to employees, the first to run, is
\* refused when one of them is still referenced.
DeleteCompany(c) ==
    LET staff == {e \in EmployeeRows : employees[e].company_id = c}
        out == IF c \notin companies THEN NoRowMatched
               ELSE IF staff \cap ReferencedEmployees # {} THEN RestrictViolation
               ELSE OK
        Kept(tbl) == IF out = OK THEN {r \in tbl : r.company_id # c} ELSE tbl
    IN /\ companies' = IF out = OK THEN companies \ {c} ELSE companies
       /\ employees' = IF out = OK
                       THEN [e \in EmployeeIds |->
                               IF e \in staff THEN NoEmployee ELSE employees[e]]
                       ELSE employees
       /\ eah' = Kept(eah)
       /\ metric_configs' = Kept(metric_configs)
       /\ time_entries' = Kept(time_entries)
       /\ events' = Kept(events)
       /\ res' = [op |-> "delete", tbl |-> "companies", outcome |-> out]
       /\ UNCHANGED id_seq

(* ------------- the versioned store with its directory ----------------- *)

RemoveEmployee ==
    \E e \in EmployeeIds : DeleteEmployee(e) /\ UNCHANGED <<fp_in, fp_out, tx, chat, cm, dash>>

RemoveCompany ==
    \E c \in CompanyIds : DeleteCompany(c) /\ UNCHANGED <<fp_in, fp_out, tx, chat, cm, dash>>

\* The writes of the versioned store, for a bounded number of records.
AuditRowsLeft == id_seq.eah + id_seq.mc < MaxAuditRows

RecordAssignment == AuditRowsLeft /\ WriteAssignment

RecordMetricConfig == AuditRowsLeft /\ WriteMetricConfig

NextAudit ==
    \/ RecordAssignment
    \/ EndAssignment
    \/ RecordMetricConfig
    \/ EndMetricConfig
    \/ RemoveEmployee
    \/ RemoveCompany

SpecAudit == Init /\ [][NextAudit]_vars

(* --------------------- daily facts (time_entries) --------------------- *)

\* The employees are synced; no time entry is written yet.
InitFacts ==
    /\ InitDirectory
    /\ eah = {}
    /\ metric_configs = {}
    /\ id_seq = [eah |-> 0, mc |-> 0, te |-> 0, ev |-> 0]
    /\ res = NoStatement
    /\ fp_in = <<>>
    /\ fp_out = <<>>
    /\ time_entries = {}
    /\ events = {}
    /\ tx = NoTransactions
    /\ chat = NoChat
    /\ cm = NoSessions
    /\ dash = NoDashboard

\* The minute columns as a writer supplies them: worked, regular, ot1 and
\* ot2 are INTEGER NOT NULL, scheduled and absence are nullable.
MinuteVals == (0 - 1)..MaxMinutes
MinuteInputs ==
    [scheduled_minutes : MinuteVals \cup {NULL}, worked_minutes : MinuteVals,
     regular_minutes : MinuteVals, ot1_minutes : MinuteVals,
     ot2_minutes : MinuteVals, absence_minutes : MinuteVals \cup {NULL}]

\* The days the facts are written for.
FactDates == 0..MaxFactDate

\* The stored time entry of a (company, employee, day), if any.
FactsOf(c, e, d) ==
    {r \in time_entries : r.company_id = c /\ r.employee_id = e /\ r.work_date = d}

\* Re-ingestion of a day (spec 4.4.5): the stored row of the key is replaced
\* as a whole by an UPDATE of all its columns, a day not yet written is
\* inserted.
ReingestTimeEntry(c, e, d, m) ==
    IF FactsOf(c, e, d) = {}
    THEN InsertTimeEntry(c, e, NULL, d, m)
    ELSE \E old \in FactsOf(c, e, d) : UpdateTimeEntry(old.id, c, e, NULL, d, m)

WriteFact ==
    \E e \in EmployeeRows, d \in FactDates, m \in MinuteInputs :
        InsertTimeEntry(employees[e].company_id, e, NULL, d, m) /\ UNCHANGED notIngestion

ReingestFact ==
    \E e \in EmployeeRows, d \in FactDates, m \in MinuteInputs :
        ReingestTimeEntry(employees[e].company_id, e, d, m) /\ UNCHANGED notIngestion

NextFacts ==
    \/ WriteFact
    \/ ReingestFact

SpecFacts == InitFacts /\ [][NextFacts]_vars

(* ------------- supersession (spec 4.4.3, one transaction) ------------- *)

\* The open record of the series (c, e), if any.
OpenRecords(c, e) ==
    {r \in eah : r.company_id = c /\ r.employee_id = e /\ r.effective_end = NULL}

\* The series a transaction in progress is writing; writes to one series
\* are serialized.
SeriesLocked(c, e) ==
    \E w \in Writers : /\ tx[w].pc # "idle"
                       /\ tx[w].row.company_id = c /\ tx[w].row.employee_id = e

\* The table as the transaction of writer w sees it: its predecessor closed
\* at the new record's start.
ViewOf(w) ==
    LET old == RowById(eah, tx[w].pred)
    IN (eah \ {old}) \cup {[old EXCEPT !.effective_end = tx[w].row.effective_start]}

\* Rows the open transactions are still to insert.
Reserved == Cardinality({w \in Writers : tx[w].pc = "closed"})

\* BEGIN; UPDATE employee_assignment_history SET effective_end = s
\*   WHERE id = <the open record of the series>.
\* A failed close rolls back: the insert is not attempted.
SupersedeClose(w, c, e, s, en) ==
    /\ tx[w].pc = "idle"
    /\ ~SeriesLocked(c, e)
    /\ id_seq.eah + Reserved < MaxTxRows
    /\ \E old \in OpenRecords(c, e) :
         LET out == CheckEAH([old EXCEPT !.effective_end = s], eah \ {old}, FALSE)
         IN /\ tx' = IF out = OK
                     THEN [tx EXCEPT ![w] = [pc |-> "closed", pred |-> old.id,
                                             row |-> NewRowEAH(c, e, s, en)]]
                     ELSE tx
            /\ res' = [op |-> "close", tbl |-> "eah", outcome |-> out]
    /\ UNCHANGED <<companies, employees, eah, metric_configs, id_seq,
                   fp_in, fp_out, time_entries, events, chat, cm, dash>>

\* INSERT the new record, inside the transaction.  A failed insert rolls the
\* close back.
SupersedeInsert(w) ==
    /\ tx[w].pc = "closed"
    /\ LET row == [tx[w].row EXCEPT !.id = NextId("eah")]
           out == CheckEAH(row, ViewOf(w), TRUE)
       IN /\ tx' = IF out = OK THEN [tx EXCEPT ![w].pc = "inserted", ![w].row = row]
                   ELSE [tx EXCEPT ![w] = Idle]
          /\ id_seq' = IF out = OK THEN [id_seq EXCEPT !.eah = row.id] ELSE id_seq
          /\ res' = [op |-> "insert", tbl |-> "eah", outcome |-> out]
    /\ UNCHANGED <<companies, employees, eah, metric_configs,
                   fp_in, fp_out, time_entries, events, chat, cm, dash>>

\* COMMIT: the close and the insert become visible together.
SupersedeCommit(w) ==
    /\ tx[w].pc = "inserted"
    /\ eah' = ViewOf(w) \cup {tx[w].row}
    /\ tx' = [tx EXCEPT ![w] = Idle]
    /\ res' = [op |-> "commit", tbl |-> "eah", outcome |-> OK]
    /\ UNCHANGED <<companies, employees, metric_configs, id_seq,
                   fp_in, fp_out, time_entries, events, chat, cm, dash>>

\* A single-statement write to a series no transaction is writing.
SeedAssignment ==
    \E c \in CompanyIds, e \in EmployeeIds, s \in Date, en \in EndInputs :
        /\ ~SeriesLocked(c, e)
        /\ id_seq.eah + Reserved < MaxTxRows
        /\ InsertEAH(c, e, s, en)
        /\ UNCHANGED notVersioned

Supersede ==
    \E w \in Writers, c \in CompanyIds, e \in EmployeeIds, s \in Date, en \in EndInputs :
        SupersedeClose(w, c, e, s, en)

SupersedeStep ==
    \E w \in Writers : SupersedeInsert(w) \/ SupersedeCommit(w)

NextTx ==
    \/ SeedAssignment
    \/ Supersede
    \/ SupersedeStep

SpecTx == Init /\ [][NextTx]_vars

(* ========================= ChatInterface ============================== *)

\* The greeting the message list starts with, and the prompt of 'Ask AI'.
Greeting == "I can help you understand your metric"
AskAIPrompt == "Tell me about Headcount"

\* input.trim(): a string of white space trims to the empty string.
Trim(str) == IF str = " " THEN "" ELSE str

\* What a render closes over: the handlers and effects created by a render
\* see the state as it was at that render.
Closure(input, isStreaming, nMessages) ==
    [input |-> input, isStreaming |-> isStreaming, nMessages |-> nMessages]

\* A ChatMessage: its id, its role, the content it was created with, the
\* pieces of text appended to the content since (each named by the source
\* it came from), and its uiSpec.
NoUiSpec == "none"
ServerUiSpec == "server"
buildDevFallbackSpec == "fallback"
UserMessage(id, content) ==
    [id |-> id, type |-> "user", content |-> content, text |-> <<>>, uiSpec |-> NoUiSpec]
AiMessage(id, content) ==
    [id |-> id, type |-> "ai", content |-> content, text |-> <<>>, uiSpec |-> NoUiSpec]

\* The id of the greeting is "1"; the others are readings of Date.now(),
\* FirstInstant..MaxInstant here, far from 1.
GreetingId == 1
FirstInstant == GreetingId + 2
Clock == FirstInstant..MaxInstant

\* The component after its first render: useState initial values, the mount
\* effects not yet run (React.StrictMode runs them twice in development).
Mounted(autoSendInitial, initialPrompt, effectRuns) ==
    [mounted |-> TRUE,
     autoSendInitial |-> autoSendInitial, initialPrompt |-> initialPrompt,
     messages |-> <<AiMessage(GreetingId, Greeting)>>, input |-> "", isStreaming |-> FALSE,
     rendered |-> Closure("", FALSE, 1), first |-> Closure("", FALSE, 1),
     effects |-> effectRuns, microtasks |-> <<>>, sends |-> <<>>, now |-> FirstInstant]

\* No state update is waiting for a render.
RenderedCurrent ==
    chat.rendered = Closure(chat.input, chat.isStreaming, Len(chat.messages))

\* A user event is dispatched once the effects of the commit and the
\* microtasks they queued have run and the state is rendered.
Settled == RenderedCurrent /\ chat.effects = 0 /\ chat.microtasks = <<>>

\* The response sources of a send, in the order of the endpoints array and
\* the fallback after it.
Endpoints == <<"/api/ai/chat/stream", "/api/chat/stream">>
MockSource == "mock stream"
Sources == Endpoints \o <<MockSource>>

\* A send in flight: the id of its assistant placeholder, its AbortSignal,
\* the source it is at (an index in Sources), where it waits there
\* ("fetch", "read", "timer") or "done", the chunks read from the source,
\* the sentences the mock stream has left, and, as a record of the run, the
\* sources it went to and the ones that failed.
NewSend(assistantId) ==
    [assistant |-> assistantId, aborted |-> FALSE, stopped |-> FALSE,
     source |-> 1, pc |-> "fetch", reads |-> 0, left |-> 0,
     tried |-> <<Sources[1]>>, failed |-> {}]

\* abortRef.current?.abort(): the controller of the last send.
AbortCurrent(sends) ==
    [i \in 1..Len(sends) |->
        IF i = Len(sends) THEN [sends[i] EXCEPT !.aborted = TRUE] ELSE sends[i]]

\* handleSend as created by the render with closure c, reading Date.now()
\* as t1 for the user message and as t2 for the assistant placeholder: a
\* blank input returns; otherwise the user message and the placeholder are
\* appended, the input is cleared, the stream in flight is aborted and a
\* new one is started at the first endpoint.
handleSend(c, t1, t2) ==
    IF Trim(c.input) = "" THEN chat
    ELSE [chat EXCEPT
            !.messages = chat.messages \o <<UserMessage(t1, c.input), AiMessage(t2 + 1, "")>>,
            !.input = "",
            !.isStreaming = TRUE,
            !.now = t2,
            !.sends = AbortCurrent(chat.sends) \o <<NewSend(t2 + 1)>>]

SendsLeft == Len(chat.sends) < MaxSends

dbVars == <<companies, employees, eah, metric_configs, id_seq, res, fp_in, fp_out,
            time_entries, events, tx>>
notChat == <<dbVars, cm, dash>>

\* Dashboard renders <ChatInterface autoSendInitial={true} ... />, with the
\* prompt of the card or, without a context, none.
Mount ==
    /\ ~chat.mounted
    /\ \E p \in {"", AskAIPrompt}, n \in {1, 2} :
         chat' = Mounted(TRUE, p, n)
    /\ UNCHANGED notChat

\* useEffect(() => { if (autoSendInitial && initialPrompt && !isStreaming
\*   && messages.length === 1) { setInput(initialPrompt);
\*   Promise.resolve().then(() => handleSend()); } }, [...])
\* with the closure of the first render.
RunMountEffect ==
    /\ chat.mounted /\ chat.effects > 0
    /\ chat' = IF /\ chat.autoSendInitial /\ chat.initialPrompt # ""
                  /\ ~chat.first.isStreaming /\ chat.first.nMessages = 1
               THEN [chat EXCEPT !.effects = @ - 1,
                                 !.input = chat.initialPrompt,
                                 !.microtasks = Append(@, chat.first)]
               ELSE [chat EXCEPT !.effects = @ - 1]
    /\ UNCHANGED notChat

\* The microtask queued by the effect: handleSend of the closure it holds.
RunMicrotask ==
    /\ chat.mounted /\ chat.microtasks # <<>>
    /\ SendsLeft \/ Trim(Head(chat.microtasks).input) = ""
    /\ \E t1 \in Clock, t2 \in Clock :
         /\ chat.now <= t1 /\ t1 <= t2
         /\ chat' = [handleSend(Head(chat.microtasks), t1, t2)
                       EXCEPT !.microtasks = Tail(chat.microtasks)]
    /\ UNCHANGED notChat

\* React renders again after a state update: new handlers, new closure.
Rerender ==
    /\ chat.mounted /\ ~RenderedCurrent
    /\ chat' = [chat EXCEPT !.rendered =
                  Closure(chat.input, chat.isStreaming, Len(chat.messages))]
    /\ UNCHANGED notChat

\* onChange={(e) => setInput(e.target.value)}
TypeInput ==
    /\ chat.mounted /\ Settled
    /\ \E text \in {" ", "Why?"} : chat' = [chat EXCEPT !.input = text]
    /\ UNCHANGED notChat

\* The Enter key, or the Send button when it is shown: handleSend of the
\* current render.
PressSend ==
    /\ chat.mounted /\ Settled
    /\ SendsLeft
    /\ \E t1 \in Clock, t2 \in Clock :
         /\ chat.now <= t1 /\ t1 <= t2
         /\ chat' = handleSend(chat.rendered, t1, t2)
    /\ UNCHANGED notChat

\* The Stop button, shown while the render has isStreaming:
\* abortRef.current?.abort(); setIsStreaming(false).
PressStop ==
    /\ chat.mounted /\ Settled
    /\ chat.rendered.isStreaming
    /\ chat.sends # <<>> /\ ~chat.sends[Len(chat.sends)].stopped
    /\ chat' = [chat EXCEPT
                  !.sends = [AbortCurrent(chat.sends)
                               EXCEPT ![Len(chat.sends)].stopped = TRUE],
                  !.isStreaming = FALSE]
    /\ UNCHANGED notChat

\* appendToAssistant(assistantId, text): the text is added to every message
\* whose id is assistantId.
appendToAssistant(messages, assistantId, text) ==
    [k \in 1..Len(messages) |->
        IF messages[k].id = assistantId
        THEN [messages[k] EXCEPT !.text = Append(@, text)]
        ELSE messages[k]]

\* setMessages(prev => prev.map(m => m.id === assistantId
\*   ? { ...m, uiSpec: obj.ui_spec } : m))
setUiSpec(messages, assistantId) ==
    [k \in 1..Len(messages) |->
        IF messages[k].id = assistantId
        THEN [messages[k] EXCEPT !.uiSpec = ServerUiSpec]
        ELSE messages[k]]

\* setMessages(prev => prev.map(m => m.id === assistantId
\*   ? { ...m, uiSpec: m.uiSpec || buildDevFallbackSpec() } : m))
attachFallback(messages, assistantId) ==
    [k \in 1..Len(messages) |->
        IF messages[k].id = assistantId /\ messages[k].uiSpec = NoUiSpec
        THEN [messages[k] EXCEPT !.uiSpec = buildDevFallbackSpec]
        ELSE messages[k]]

\* The end of handleSend for send i: the fallback UI spec is attached, and
\* finally setIsStreaming(false).
Finish(c, i) ==
    [c EXCEPT !.messages = attachFallback(c.messages, c.sends[i].assistant),
              !.sends[i].pc = "done",
              !.isStreaming = FALSE]

\* Send i leaves the source it is at, which failed: the for loop of
\* tryServerStream continues with the next endpoint, and after the last one
\* handleSend starts mockStream, which breaks at once when the signal is
\* aborted and otherwise waits for its first timer.
NextSource(c, i) ==
    LET snd == c.sends[i]
        failed == snd.failed \cup {Sources[snd.source]}
    IN IF snd.source < Len(Endpoints)
       THEN [c EXCEPT !.sends[i] =
               [snd EXCEPT !.source = @ + 1, !.pc = "fetch", !.reads = 0,
                           !.tried = Append(@, Sources[snd.source + 1]),
                           !.failed = failed]]
       ELSE LET mock == [snd EXCEPT !.source = Len(Sources), !.pc = "timer",
                                    !.left = MaxSentences,
                                    !.tried = Append(@, MockSource),
                                    !.failed = failed]
            IN IF snd.aborted
               THEN Finish([c EXCEPT !.sends[i] = mock], i)
               ELSE [c EXCEPT !.sends[i] = mock]

Waiting(i, pc) ==
    /\ i \in 1..Len(chat.sends)
    /\ chat.sends[i].pc = pc

\* await fetch(path, ...) settles: a response with a body to read, or a
\* failure (the request throws, !res.ok, no body) and the next source.
FetchSettles ==
    /\ chat.mounted
    /\ \E i \in 1..MaxSends, ok \in BOOLEAN :
         /\ Waiting(i, "fetch") /\ ~chat.sends[i].aborted
         /\ chat' = IF ok THEN [chat EXCEPT !.sends[i].pc = "read"]
                    ELSE NextSource(chat, i)
    /\ UNCHANGED notChat

\* await reader.read() gives a chunk: text, appended to the assistant
\* message, or a ui_spec, set on it.
ReadChunk ==
    /\ chat.mounted
    /\ \E i \in 1..MaxSends, event \in {"delta", "ui_spec"} :
         /\ Waiting(i, "read") /\ ~chat.sends[i].aborted
         /\ chat.sends[i].reads < MaxChunks
         /\ chat' = [chat EXCEPT
                       !.messages =
                           IF event = "delta"
                           THEN appendToAssistant(@, chat.sends[i].assistant,
                                                  Sources[chat.sends[i].source])
                           ELSE setUiSpec(@, chat.sends[i].assistant),
                       !.sends[i].reads = @ + 1]
    /\ UNCHANGED notChat

\* await reader.read() gives done (or the [DONE] event): tryServerStream
\* returns true and handleSend ends.
ReadDone ==
    /\ chat.mounted
    /\ \E i \in 1..MaxSends :
         /\ Waiting(i, "read") /\ ~chat.sends[i].aborted
         /\ chat' = Finish(chat, i)
    /\ UNCHANGED notChat

\* await reader.read() throws, the connection lost: catch, continue.
ReadFails ==
    /\ chat.mounted
    /\ \E i \in 1..MaxSends :
         /\ Waiting(i, "read") /\ ~chat.sends[i].aborted
         /\ chat' = NextSource(chat, i)
    /\ UNCHANGED notChat

\* The signal of send i was aborted while it waited for an endpoint: the
\* pending fetch or read throws, so does the fetch of every endpoint left,
\* mockStream breaks at once and handleSend ends.
RECURSIVE Unwound(_, _)
Unwound(c, i) ==
    IF c.sends[i].pc = "done" THEN c ELSE Unwound(NextSource(c, i), i)

AbortedUnwinds ==
    /\ chat.mounted
    /\ \E i \in 1..MaxSends :
         /\ Waiting(i, "fetch") \/ Waiting(i, "read")
         /\ chat.sends[i].aborted
         /\ chat' = Unwound(chat, i)
    /\ UNCHANGED notChat

\* The timer of mockStream fires: the sentence is appended, then the loop
\* ends when no sentence is left or the signal is aborted, and waits for
\* the next timer otherwise.
MockTimer ==
    /\ chat.mounted
    /\ \E i \in 1..MaxSends :
         /\ Waiting(i, "timer")
         /\ LET appended == [chat EXCEPT
                               !.messages = appendToAssistant(@, chat.sends[i].assistant,
                                                              MockSource),
                               !.sends[i].left = @ - 1]
            IN chat' = IF appended.sends[i].left = 0 \/ appended.sends[i].aborted
                       THEN Finish(appended, i)
                       ELSE appended
    /\ UNCHANGED notChat

\* A step of a response stream.
StreamStep ==
    \/ FetchSettles
    \/ ReadChunk
    \/ ReadDone
    \/ ReadFails
    \/ AbortedUnwinds
    \/ MockTimer

InitChat ==
    /\ InitDirectory
    /\ eah = {}
    /\ metric_configs = {}
    /\ id_seq = [eah |-> 0, mc |-> 0, te |-> 0, ev |-> 0]
    /\ res = NoStatement
    /\ fp_in = <<>>
    /\ fp_out = <<>>
    /\ time_entries = {}
    /\ events = {}
    /\ tx = NoTransactions
    /\ chat = NoChat
    /\ cm = NoSessions
    /\ dash = NoDashboard

NextChat ==
    \/ Mount
    \/ RunMountEffect
    \/ RunMicrotask
    \/ Rerender
    \/ TypeInput
    \/ PressSend
    \/ PressStop
    \/ FetchSettles
    \/ ReadChunk
    \/ ReadDone
    \/ ReadFails
    \/ AbortedUnwinds
    \/ MockTimer

\* What React and the event loop do is done eventually; what the user does
\* (TypeInput, PressSend) need never happen.
ChatScheduling ==
    /\ WF_vars(Mount)
    /\ WF_vars(RunMountEffect)
    /\ WF_vars(RunMicrotask)
    /\ WF_vars(Rerender)
    /\ WF_vars(StreamStep)

SpecChat == InitChat /\ [][NextChat]_vars /\ ChatScheduling

(* ========================= ContextManager ============================= *)

\* What a caller passes as a message: an id or none, a role, a content.
NoId == 0
MessageIds == 1..MaxMessageId
MessageInputs == [id : MessageIds \cup {NoId}, type : {"user"}, content : {"a"}]

\* Date.now() as read by a call.
Instants == 1..MaxMessageId

\* uuidv4(): a random identifier, taken never to repeat; the n-th one
\* issued is n.
uuidv4(c) == c.issued + 1

\* loadIndex(): the index parsed from localStorage, {} when nothing is stored.
loadIndex(c) == c.index

\* saveIndex writing only the entries that changed: the rest is lost.
saveIndex_alone(c, index) ==
    [c EXCEPT !.index = [m \in Metrics |->
                           IF index[m] # c.index[m] THEN index[m] ELSE NoSession]]

\* saveIndex(index): the whole index is written back under STORAGE_KEY.
saveIndex(c, index) == [c EXCEPT !.index = index]

\* getOrCreateSession without saveIndex: the new session is returned and
\* not stored.
getOrCreateSession_unsaved(c, metric) ==
    LET existing == loadIndex(c)[metric]
    IN IF existing # NoSession
       THEN [state |-> existing, cm |-> c]
       ELSE [state |-> [sessionId |-> uuidv4(c), metric |-> metric, messages |-> <<>>],
             cm |-> [c EXCEPT !.issued = @ + 1]]

\* getOrCreateSession(metric): the stored session if there is one, else a
\* new one, stored.  Gives the ConversationState returned and the
\* ContextManager state left behind.
getOrCreateSession(c, metric) ==
    LET index == loadIndex(c)
        existing == index[metric]
        state == [sessionId |-> uuidv4(c), metric |-> metric, messages |-> <<>>]
    IN IF existing # NoSession
       THEN [state |-> existing, cm |-> c]
       ELSE [state |-> state,
             cm |-> [saveIndex(c, [index EXCEPT ![metric] = state])
                       EXCEPT !.issued = @ + 1]]

\* const state = index[metric] || getOrCreateSession(metric);
SessionOf(c, metric) ==
    IF loadIndex(c)[metric] # NoSession
    THEN [state |-> loadIndex(c)[metric], cm |-> c]
    ELSE getOrCreateSession(c, metric)

\* appendMessage(metric, message) at Date.now() = now.
appendMessage(c, metric, message, now) ==
    LET index == loadIndex(c)
        got == SessionOf(c, metric)
        msg == [id |-> IF message.id = NoId THEN now ELSE message.id,
                type |-> message.type, content |-> message.content]
        next == [got.state EXCEPT !.messages = Append(@, msg)]
    IN [state |-> next, cm |-> saveIndex(got.cm, [index EXCEPT ![metric] = next])]

\* updateMessage(metric, id, updater)
updateMessage(c, metric, id, updater) ==
    LET index == loadIndex(c)
        got == SessionOf(c, metric)
        nextMessages == [i \in 1..Len(got.state.messages) |->
                           IF got.state.messages[i].id = id
                           THEN updater[got.state.messages[i]]
                           ELSE got.state.messages[i]]
        next == [got.state EXCEPT !.messages = nextMessages]
    IN [state |-> next, cm |-> saveIndex(got.cm, [index EXCEPT ![metric] = next])]

\* replaceMessages(metric, messages)
replaceMessages(c, metric, messages) ==
    LET index == loadIndex(c)
        got == SessionOf(c, metric)
        next == [got.state EXCEPT !.messages = messages]
    IN [state |-> next, cm |-> saveIndex(got.cm, [index EXCEPT ![metric] = next])]

\* clearSession(metric): delete index[metric].
clearSession(c, metric) ==
    saveIndex(c, [loadIndex(c) EXCEPT ![metric] = NoSession])

\* The updaters the callers pass: rewrite the content, or rename the message.
PersistedMessages == [id : MessageIds, type : {"user", "ai"}, content : {"a", "b"}]
SetContent == [m \in PersistedMessages |-> [m EXCEPT !.content = "b"]]
Rename == [m \in PersistedMessages |-> [m EXCEPT !.id = (m.id % MaxMessageId) + 1]]

\* The lists a caller replaces a conversation with.
ReplacementLists ==
    {<<>>,
     <<[id |-> 1, type |-> "user", content |-> "b"]>>,
     <<[id |-> 2, type |-> "ai", content |-> "a"],
       [id |-> 1, type |-> "user", content |-> "a"]>>}

SessionsLeft(metric) == cm.index[metric] # NoSession \/ cm.issued < MaxSessions

notContext == <<dbVars, chat, dash>>

\* A call, its arguments and what it returned.
GetOrCreateSession ==
    \E m \in Metrics :
        /\ SessionsLeft(m)
        /\ LET got == getOrCreateSession(cm, m)
           IN cm' = [got.cm EXCEPT
                       !.call = [op |-> "getOrCreateSession", metric |-> m,
                                 returned |-> got.state]]
        /\ UNCHANGED notContext

AppendMessage ==
    \E m \in Metrics, message \in MessageInputs, now \in Instants :
        /\ SessionsLeft(m)
        /\ Len(SessionOf(cm, m).state.messages) < MaxMessages
        /\ LET got == appendMessage(cm, m, message, now)
           IN cm' = [got.cm EXCEPT
                       !.call = [op |-> "appendMessage", metric |-> m,
                                 message |-> message, returned |-> got.state]]
        /\ UNCHANGED notContext

UpdateMessage ==
    \E m \in Metrics, id \in MessageIds, updater \in {SetContent, Rename} :
        /\ SessionsLeft(m)
        /\ LET got == updateMessage(cm, m, id, updater)
           IN cm' = [got.cm EXCEPT
                       !.call = [op |-> "updateMessage", metric |-> m, id |-> id,
                                 returned |-> got.state]]
        /\ UNCHANGED notContext

ReplaceMessages ==
    \E m \in Metrics, messages \in ReplacementLists :
        /\ SessionsLeft(m)
        /\ LET got == replaceMessages(cm, m, messages)
           IN cm' = [got.cm EXCEPT
                       !.call = [op |-> "replaceMessages", metric |-> m,
                                 returned |-> got.state]]
        /\ UNCHANGED notContext

ClearSession ==
    \E m \in Metrics :
        /\ cm' = [clearSession(cm, m) EXCEPT
                    !.call = [op |-> "clearSession", metric |-> m,
                              returned |-> NoSession]]
        /\ UNCHANGED notContext

InitContext ==
    /\ InitDirectory
    /\ eah = {}
    /\ metric_configs = {}
    /\ id_seq = [eah |-> 0, mc |-> 0, te |-> 0, ev |-> 0]
    /\ res = NoStatement
    /\ fp_in = <<>>
    /\ fp_out = <<>>
    /\ time_entries = {}
    /\ events = {}
    /\ tx = NoTransactions
    /\ chat = NoChat
    /\ cm = NoSessions
    /\ dash = NoDashboard

\* A conversation that is only read, appended to and cleared.
NextSessions ==
    \/ GetOrCreateSession
    \/ AppendMessage
    \/ ClearSession

SpecSessions == InitContext /\ [][NextSessions]_vars

NextContext ==
    \/ GetOrCreateSession
    \/ AppendMessage
    \/ UpdateMessage
    \/ ReplaceMessages
    \/ ClearSession

SpecContext == InitContext /\ [][NextContext]_vars

(* ============================ Dashboard =============================== *)

\* JavaScript null, for the state that holds a string or null.
null == "null"

\* const keys = ["headcount", "absenteeism_rate", "turnover_rate", "overtime_rate"]
keys == <<"headcount", "absenteeism_rate", "turnover_rate", "overtime_rate">>

metricTitles ==
    [k \in {keys[n] : n \in 1..Len(keys)} |->
        CASE k = "headcount" -> "Headcount"
          [] k = "absenteeism_rate" -> "Absenteeism Rate"
          [] k = "turnover_rate" -> "Turnover Rate"
          [] k = "overtime_rate" -> "Overtime"]

\* title.toLowerCase(), and title.toLowerCase().includes(word), for the
\* titles of the cards.
toLowerCase(title) ==
    CASE title = "Headcount" -> "headcount"
      [] title = "Absenteeism Rate" -> "absenteeism rate"
      [] title = "Turnover Rate" -> "turnover rate"
      [] title = "Overtime" -> "overtime"
includes(lower, word) ==
    \/ lower = "headcount" /\ word = "headcount"
    \/ lower = "absenteeism rate" /\ word = "absentee"
    \/ lower = "turnover rate" /\ word = "turnover"
    \/ lower = "overtime" /\ word = "overtime"

\* cards === null; a loaded list of cards is never empty.
NoCards == <<>>

\* The cards mapped from the responses, in the order of keys; current is
\* the set of metrics /api/metrics/current reported.
mapped(current) ==
    [n \in 1..Len(keys) |->
        [key |-> keys[n], title |-> metricTitles[keys[n]],
         value |-> IF keys[n] \in current THEN "value" ELSE "N/A"]]

\* The Dashboard after its first render: useState initial values, the load
\* effect not yet run (React.StrictMode runs it twice in development), and
\* the last thing the user did with the chat dialog.
MountedDashboard(effectRuns) ==
    [mounted |-> TRUE, chatMetric |-> null, chatContext |-> null,
     cards |-> NoCards, loading |-> TRUE, error |-> null,
     effects |-> effectRuns, loads |-> <<>>, event |-> "none"]

\* openChat(metricTitle, context)
openChat(d, metricTitle, context) ==
    LET lower == toLowerCase(metricTitle)
        key == IF includes(lower, "headcount") THEN "headcount"
               ELSE IF includes(lower, "absentee") THEN "absenteeism_rate"
               ELSE IF includes(lower, "turnover") THEN "turnover_rate"
               ELSE IF includes(lower, "overtime") THEN "overtime_rate"
               ELSE lower
    IN [d EXCEPT !.chatMetric = key, !.chatContext = context]

\* <Dialog open={!!chatMetric} ...>
DialogOpen(d) == d.chatMetric # null /\ d.chatMetric # ""

\* Only the chat metric is reset: the context of the closed chat stays.
CloseChat_metricOnly(d) == [d EXCEPT !.chatMetric = null]

\* { setChatMetric(null); setChatContext(null); }: onOpenChange(false) of
\* the Dialog and onClose of the ChatInterface.
CloseChat(d) == [d EXCEPT !.chatMetric = null, !.chatContext = null]

\* The cards are shown: !loading && !error && cards.
CardsShown(d) == ~d.loading /\ d.error = null /\ d.cards # NoCards

notDashboard == <<dbVars, chat, cm>>

\* <React.StrictMode> ... <Dashboard /> at the root.
MountDashboard ==
    /\ ~dash.mounted
    /\ \E n \in {1, 2} : dash' = MountedDashboard(n)
    /\ UNCHANGED notDashboard

\* useEffect(() => { ... load(); }, []): setLoading(true), and the first
\* request is sent.
RunLoadEffect ==
    /\ dash.mounted /\ dash.effects > 0
    /\ dash' = [dash EXCEPT !.effects = @ - 1,
                            !.loading = TRUE,
                            !.loads = Append(@, [pc |-> "current", current |-> {}])]
    /\ UNCHANGED notDashboard

\* catch (e) { setError(e?.message || "Failed to load metrics") }
\* finally { setLoading(false) }
LoadFailed(d, i) ==
    [d EXCEPT !.error = "Failed to load metrics", !.loading = FALSE,
              !.loads[i].pc = "done"]

\* setCards(mapped); finally { setLoading(false) }
LoadSucceeded(d, i) ==
    [d EXCEPT !.cards = mapped(d.loads[i].current), !.loading = FALSE,
              !.loads[i].pc = "done"]

\* An await of load i settles: /api/metrics/current, then the four trend
\* requests (Promise.all), then the headcount breakdown; a request that
\* fails ends the load in catch.
LoadStep ==
    /\ dash.mounted
    /\ \E i \in 1..Len(dash.loads), ok \in BOOLEAN,
          current \in {{}, {keys[n] : n \in 1..Len(keys)}} :
         LET pc == dash.loads[i].pc
         IN /\ pc # "done"
            /\ dash' = IF ~ok THEN LoadFailed(dash, i)
                       ELSE IF pc = "current"
                       THEN [dash EXCEPT !.loads[i] = [pc |-> "trends", current |-> current]]
                       ELSE IF pc = "trends"
                       THEN [dash EXCEPT !.loads[i].pc = "breakdown"]
                       ELSE LoadSucceeded(dash, i)
    /\ UNCHANGED notDashboard

\* 'Ask AI' on a card that is shown: onAskAI={(ctx) => openChat(c.title, ctx)},
\* the context being the card's (named by its title) or none.
AskAI ==
    /\ dash.mounted /\ CardsShown(dash)
    /\ \E n \in 1..Len(dash.cards) :
         \E ctx \in {dash.cards[n].title, null} :
            dash' = [openChat(dash, dash.cards[n].title, ctx) EXCEPT !.event = "Ask AI"]
    /\ UNCHANGED notDashboard

\* Dialog: Escape while open, or a click on the backdrop: onOpenChange(false).
PressEscape ==
    /\ dash.mounted /\ DialogOpen(dash)
    /\ dash' = [CloseChat(dash) EXCEPT !.event = "Escape"]
    /\ UNCHANGED notDashboard

ClickBackdrop ==
    /\ dash.mounted /\ DialogOpen(dash)
    /\ dash' = [CloseChat(dash) EXCEPT !.event = "backdrop"]
    /\ UNCHANGED notDashboard

\* The close button of the ChatInterface, rendered while chatMetric is set.
CloseChatInterface ==
    /\ dash.mounted /\ DialogOpen(dash)
    /\ dash' = [CloseChat(dash) EXCEPT !.event = "close"]
    /\ UNCHANGED notDashboard

NextDashboard ==
    \/ MountDashboard
    \/ RunLoadEffect
    \/ LoadStep
    \/ AskAI
    \/ PressEscape
    \/ ClickBackdrop
    \/ CloseChatInterface

SpecDashboard == InitContext /\ [][NextDashboard]_vars

(* ===================== the interval model (spec 4.1) ================== *)

\* contains(interval, point): start <= point < end, or end absent.
Contains(start, end, d) == start <= d /\ (end = NULL \/ d < end)

\* overlaps(a, b): the two half-open intervals share a day.
Overlaps(s1, e1, s2, e2) ==
    \E d \in Date : Contains(s1, e1, d) /\ Contains(s2, e2, d)

\* A well-formed interval: a start, and an end that is absent or after it.
WellFormed(s, en) == s # NULL /\ (en = NULL \/ en > s)

\* The series a record belongs to: (tenant, subject, scope fingerprint).
SameSeriesEAH(a, b) ==
    a.company_id = b.company_id /\ a.employee_id = b.employee_id

SameSeriesMC(a, b) ==
    /\ a.company_id = b.company_id /\ a.metric_key = b.metric_key
    /\ scope_hash(a.scope) = scope_hash(b.scope)

OverlapsEAH(a, b) ==
    Overlaps(a.effective_start, a.effective_end, b.effective_start, b.effective_end)

OverlapsMC(a, b) ==
    Overlaps(a.effective_from, a.effective_to, b.effective_from, b.effective_to)

\* A statement that did not end "ok" changed no table.
FailedStatementStoresNothing ==
    res'.outcome # OK => UNCHANGED <<eah, metric_configs, id_seq>>

(* ------------------------------- C1 ----------------------------------- *)

\* In every reachable state and for every well-formed interval a writer may
\* insert: the insert is refused by the exclusion constraint when the interval
\* overlaps a record of its series, and accepted when it overlaps none (the
\* referenced company and employee existing), adjacency included.
C1_InsertOutcome ==
    /\ \A c \in CompanyIds, e \in EmployeeIds, s \in Date, en \in EndInputs :
         LET row == NewRowEAH(c, e, s, en)
             hit == \E r \in eah : SameSeriesEAH(row, r) /\ OverlapsEAH(row, r)
         IN WellFormed(s, en) =>
              /\ hit => CheckEAH(row, eah, TRUE) = ExAssignment
              /\ (~hit /\ c \in companies /\ employees[e] # NoEmployee)
                    => CheckEAH(row, eah, TRUE) = OK
    /\ \A k \in MetricKeys, raw \in ScopeInputs, s \in Date, en \in EndInputs :
         LET row == NewRowMC(1, k, raw, s, en)
             hit == \E r \in metric_configs : SameSeriesMC(row, r) /\ OverlapsMC(row, r)
         IN WellFormed(s, en) =>
              /\ hit => CheckMC(row, metric_configs, TRUE) = ExMetricConfigs
              /\ ~hit => CheckMC(row, metric_configs, TRUE) = OK

\* C1: an insert overlapping a record of its series always fails with the
\* exclusion constraint's error and stores nothing; an insert of a disjoint
\* interval, adjacent ones included, always succeeds.
C1_NoOverlapInsert == []C1_InsertOutcome /\ [][FailedStatementStoresNothing]_vars

\* An overlapping insert has just been refused while the series holds two
\* adjacent records (the second one's start is the first one's end).
C1_Witness ==
    /\ res.op = "insert" /\ res.tbl = "eah" /\ res.outcome = ExAssignment
    /\ \E a \in eah, b \in eah :
         /\ SameSeriesEAH(a, b) /\ a.effective_end # NULL
         /\ WellFormed(a.effective_start, a.effective_end)
         /\ b.effective_start = a.effective_end

(* ------------------------------- C2 ----------------------------------- *)

\* C2: in every reachable state the intervals of the records of one series
\* are pairwise non-overlapping.
C2_PairwiseDisjoint ==
    /\ \A a \in eah, b \in eah :
         (a.id # b.id /\ SameSeriesEAH(a, b)) => ~OverlapsEAH(a, b)
    /\ \A a \in metric_configs, b \in metric_configs :
         (a.id # b.id /\ SameSeriesMC(a, b)) => ~OverlapsMC(a, b)

\* A series with a gap between two records, reached through an end-date
\* update: [0, 1) and [2, open), the first closed after its insert.
C2_Witness ==
    /\ res.op = "update" /\ res.outcome = OK
    /\ \E a \in eah, b \in eah :
         /\ SameSeriesEAH(a, b) /\ a.effective_end # NULL
         /\ WellFormed(a.effective_start, a.effective_end)
         /\ a.effective_end < b.effective_start

(* ------------------------------- C3 ----------------------------------- *)

\* The range operator @> (range contains element).
RangeContains(r, d) == ~r.empty /\ r.lower <= d /\ d < r.upper

\* active_as_of(tenant, subject, scope, date): the records of the series
\* whose effective_range contains the date.
active_as_of_eah(c, e, d) ==
    {r \in eah : /\ r.company_id = c /\ r.employee_id = e
                 /\ RangeContains(effective_range(r.effective_start, r.effective_end), d)}

active_as_of_mc(c, k, raw, d) ==
    {r \in metric_configs :
        /\ r.company_id = c /\ r.metric_key = k
        /\ scope_hash(r.scope) = scope_hash(jsonb_in(raw))
        /\ RangeContains(effective_range(r.effective_from, r.effective_to), d)}

\* C3: for every date and series active_as_of returns at most one record, and
\* a record of the series is returned exactly when start <= D < end or
\* start <= D with the end absent (so a date in a gap returns none).
C3_ActiveAsOfUnique ==
    /\ \A c \in CompanyIds, e \in EmployeeIds, d \in Date :
         LET got == active_as_of_eah(c, e, d)
         IN /\ Cardinality(got) <= 1
            /\ \A r \in eah :
                 (r.company_id = c /\ r.employee_id = e) =>
                    (r \in got <=> Contains(r.effective_start, r.effective_end, d))
    /\ \A c \in CompanyIds, k \in MetricKeys, raw \in ScopeInputs, d \in Date :
         LET got == active_as_of_mc(c, k, raw, d)
         IN /\ Cardinality(got) <= 1
            /\ \A r \in metric_configs :
                 (r.company_id = c /\ r.metric_key = k
                    /\ scope_hash(r.scope) = scope_hash(jsonb_in(raw))) =>
                    (r \in got <=> Contains(r.effective_from, r.effective_to, d))

\* A series of two records with a gap: one date answers with the first
\* record, a date in the gap with none, a later date with the second.
C3_Witness ==
    \E a \in eah, b \in eah, d1 \in Date, d2 \in Date, d3 \in Date :
        /\ a.id # b.id /\ d1 < d2 /\ d2 < d3
        /\ active_as_of_eah(a.company_id, a.employee_id, d1) = {a}
        /\ active_as_of_eah(a.company_id, a.employee_id, d2) = {}
        /\ active_as_of_eah(a.company_id, a.employee_id, d3) = {b}

(* ------------------------------- C4 ----------------------------------- *)

\* The committed table after the step holds the supersession of writer w:
\* the predecessor closed at the new record's start, the new record added,
\* every other record as it was.
Superseded(w) ==
    LET old == RowById(eah, tx[w].pred)
        new == tx[w].row
    IN /\ old.effective_end = NULL
       /\ new.id \notin RowIds(eah)
       /\ eah' = (eah \ {old})
                   \cup {[old EXCEPT !.effective_end = new.effective_start], new}

\* A step changes the committed table by one whole supersession or by one
\* single-statement insert, and by nothing else.
C4_BothOrNeither ==
    eah' # eah =>
        \/ \E w \in Writers : tx[w].pc = "inserted" /\ tx'[w].pc = "idle" /\ Superseded(w)
        \/ tx' = tx /\ \E r \in eah' : r.id \notin RowIds(eah) /\ eah' = eah \cup {r}

\* A failed close ends the transaction before the insert: no transaction is
\* left open by it, no id is drawn, nothing is stored.
C4_FailedCloseStops ==
    (res'.op = "close" /\ res'.outcome # OK) =>
        tx' = tx /\ eah' = eah /\ id_seq' = id_seq

\* A failed insert ends the transaction with nothing stored, the close
\* included; an insert of a valid interval for an existing tenant and
\* employee does not fail.
C4_InsertAfterClose ==
    \A w \in Writers :
        (tx[w].pc = "closed" /\ tx'[w] # tx[w]) =>
            /\ res'.outcome # OK =>
                  tx'[w] = Idle /\ eah' = eah /\ id_seq' = id_seq
            /\ ( /\ WellFormed(tx[w].row.effective_start, tx[w].row.effective_end)
                 /\ employees[tx[w].row.employee_id] # NoEmployee )
                  => res'.outcome = OK /\ tx'[w].pc = "inserted"

C5_ReaderView ==
    /\ \A a \in eah, b \in eah :
         (SameSeriesEAH(a, b) /\ a.effective_end = NULL /\ b.effective_end = NULL)
            => a = b
    /\ \A w \in Writers :
         tx[w].pc # "idle" =>
            /\ \E old \in eah : old.id = tx[w].pred /\ old.effective_end = NULL
            /\ \A r \in eah :
                  SameSeriesEAH(r, tx[w].row) /\ r.id # tx[w].pred
                     => r.effective_end # NULL

\* A record that was open and is closed by a step has, after that same step,
\* a successor in its series that starts where it ends.
C5_ClosedWithSuccessor ==
    \A old \in eah :
        (old.effective_end = NULL /\ \E r \in eah' : r.id = old.id /\ r.effective_end # NULL)
            => \E new \in eah' :
                  /\ new.id \notin RowIds(eah)
                  /\ SameSeriesEAH(new, old)
                  /\ new.effective_start = RowById(eah', old.id).effective_end

InsertedEAH == {r \in eah' : r.id \notin RowIds(eah)}
InsertedMC == {r \in metric_configs' : r.id \notin RowIds(metric_configs)}

\* C6: an insert whose effective_end is present and not strictly after its
\* effective_start (end = start included), or whose effective_start is absent,
\* fails and stores nothing: every row an insert stores has a start, and an
\* end that is absent or after the start.
C6_InsertRejectsInvalidRange ==
    [][ /\ \A r \in InsertedEAH : WellFormed(r.effective_start, r.effective_end)
        /\ \A r \in InsertedMC : WellFormed(r.effective_from, r.effective_to) ]_vars

(* ------------------------------- C7 ----------------------------------- *)

\* C7: close sets effective_end only on an existing open record, with at
\* after its start: whenever a step gives a record a new effective_end, the
\* record was open before and the new end is after its start.
C7_CloseOnlyOpenRecords ==
    [][ \A old \in eah, new \in eah' :
          (new.id = old.id /\ new.effective_end # old.effective_end
             /\ new.effective_end # NULL) =>
             (old.effective_end = NULL /\ new.effective_end > old.effective_start) ]_vars

(* ------------------------------- C8 ----------------------------------- *)

\* The scope a record was written for: its non-null members.
NonNullMembers(scope) == {scope[i] : i \in {j \in 1..Len(scope) : Val(scope[j]) # NULL}}

\* C8: an insert into metric_configs fails with the exclusion constraint's
\* error only when a record of the same company and metric with the same
\* non-null scope members overlaps it; records of different scopes never
\* conflict.
C8_ScopesIndependent ==
    \A k \in MetricKeys, raw \in ScopeInputs, s \in StartInputs, en \in EndInputs :
        LET row == NewRowMC(1, k, raw, s, en)
        IN CheckMC(row, metric_configs, TRUE) = ExMetricConfigs =>
             \E r \in metric_configs :
                /\ r.company_id = row.company_id /\ r.metric_key = row.metric_key
                /\ NonNullMembers(r.scope) = NonNullMembers(row.scope)
                /\ OverlapsMC(row, r)

\* Two stored records of one company and metric with different scopes and
\* overlapping intervals, the second insert having succeeded.
C8_Witness ==
    /\ res.op = "insert" /\ res.tbl = "mc" /\ res.outcome = OK
    /\ \E a \in metric_configs, b \in metric_configs :
         /\ a.id # b.id /\ a.company_id = b.company_id /\ a.metric_key = b.metric_key
         /\ NonNullMembers(a.scope) # NonNullMembers(b.scope)
         /\ OverlapsMC(a, b)

(* ------------------------------- C9 ----------------------------------- *)

\* The mapping a written scope denotes, nulls dropped: for each key its last
\* member, when that member's value is not null.
Denotes(raw) ==
    {raw[i] : i \in {j \in 1..Len(raw) :
                        /\ Val(raw[j]) # NULL
                        /\ \A l \in (j + 1)..Len(raw) : Key(raw[l]) # Key(raw[j])}}

\* C9: two scopes get the same fingerprint exactly when they hold the same
\* non-null key/value pairs, whatever the order the keys were written in.
C9_FingerprintCanonical ==
    fp_out # <<>> => ((fp_out[1] = fp_out[2]) <=> (Denotes(fp_in[1]) = Denotes(fp_in[2])))

\* {a:1, b:2} and {b:2, a:1} have been fingerprinted, with one result.
C9_Witness ==
    /\ fp_in = << << <<1, 1>>, <<2, 2>> >>, << <<2, 2>>, <<1, 1>> >> >>
    /\ fp_out # <<>>
    /\ fp_out[1] = fp_out[2]

(* ------------------------------- C10 ---------------------------------- *)

\* In every reachable state, a time entry or event for an existing employee
\* that names another company than the employee's is refused by the trigger.
C10_MismatchRefused ==
    \A c \in CompanyIds, e \in EmployeeRows, x \in ExternalInputs, d \in WorkDates :
        c # employees[e].company_id =>
          /\ WriteTimeEntryRow(NewTimeEntry(c, e, x, d, DefaultMinutes),
                               time_entries).outcome = CompanyMismatch
          /\ WriteEventRow(NewEvent(c, e, x, d)).outcome = CompanyMismatch

\* Every row a step stores in time_entries or events, new or rewritten,
\* carries the company of its employee as the directory has it at that step,
\* and a refused write stores nothing.
C10_WrittenWithEmployeeTenant ==
    /\ \A r \in (time_entries' \ time_entries) \cup (events' \ events) :
         /\ r.employee_id \in EmployeeRows
         /\ r.company_id = employees[r.employee_id].company_id
    /\ res'.outcome # OK => UNCHANGED <<time_entries, events>>

\* C10: a fact or event written with a company that differs from its
\* employee's is rejected with the trigger's company mismatch, is not stored
\* and is not reassigned; every stored fact or event has the company its
\* employee had at that write.
C10_TenantMismatchRejected ==
    []C10_MismatchRefused /\ [][C10_WrittenWithEmployeeTenant]_vars

\* A time entry naming the wrong company has just been refused, after a
\* time entry of the employee had been stored.
C10_Witness ==
    /\ res.op = "insert" /\ res.tbl = "time_entries" /\ res.outcome = CompanyMismatch
    /\ time_entries # {}

(* ------------------------------- C11 ---------------------------------- *)

\* In every reachable state, whatever identifier the writer supplies: a
\* write for an employee the directory has no identifier for is refused by
\* the trigger, and an accepted write yields a row stamped with the
\* directory's identifier of the employee.
C11_StampedFromDirectory ==
    \A c \in CompanyInputs, e \in EmployeeInputs, x \in ExternalInputs, d \in WorkDates :
        LET te == WriteTimeEntryRow(NewTimeEntry(c, e, x, d, DefaultMinutes), time_entries)
            ev == WriteEventRow(NewEvent(c, e, x, d))
        IN /\ SelectEmployee(e).external_id = NULL =>
                te.outcome = EmployeeMissing /\ ev.outcome = EmployeeMissing
           /\ te.outcome = OK =>
                te.row.employee_external_id = employees[e].external_id
           /\ ev.outcome = OK =>
                ev.row.employee_external_id = employees[e].external_id

\* Every row a step stores in time_entries or events, new or rewritten,
\* carries the identifier the directory has for its employee at that step,
\* and that identifier is not null.
C11_WrittenWithDirectoryId ==
    \A r \in (time_entries' \ time_entries) \cup (events' \ events) :
        /\ r.employee_id \in EmployeeRows
        /\ r.employee_external_id # NULL
        /\ r.employee_external_id = employees[r.employee_id].external_id

\* C11: after every accepted insert or update of a time entry or event the
\* row's employee_external_id equals the directory's external_id of that
\* employee at the time of the write, whatever the writer supplied; when the
\* directory has no identifier for the employee the write fails and no row
\* with a null identifier is stored.
C11_IdentifierStamped ==
    /\ []C11_StampedFromDirectory
    /\ [][C11_WrittenWithDirectoryId]_vars
    /\ [](\A r \in time_entries \cup events : r.employee_external_id # NULL)

\* A stored time entry still carries the identifier its employee had when
\* it was written, after the directory has given the employee another one;
\* a write now, supplying the old identifier, would be stamped with the new.
C11_Witness ==
    \E r \in time_entries :
        /\ r.employee_id \in EmployeeRows
        /\ r.employee_external_id # employees[r.employee_id].external_id
        /\ LET w == WriteEventRow(NewEvent(r.company_id, r.employee_id,
                                           r.employee_external_id, 0))
           IN w.outcome = OK
              /\ w.row.employee_external_id = employees[r.employee_id].external_id

(* ----------------------- daily facts: C12 - C16 ----------------------- *)

\* The result of writing the minutes m for employee e and day d, as a fresh
\* write or as the replacement of the stored fact of that day.
FactWrite(e, d, m) ==
    WriteTimeEntryRow(NewTimeEntry(employees[e].company_id, e, NULL, d, m),
                      time_entries \ FactsOf(employees[e].company_id, e, d))

\* What the claims say of the minutes of a fact.
SumsUp(m) == m.worked_minutes = m.regular_minutes + m.ot1_minutes + m.ot2_minutes
Present(v) == v # NULL
NoneNegative(m) ==
    \A v \in {m.worked_minutes, m.regular_minutes, m.ot1_minutes, m.ot2_minutes,
              m.scheduled_minutes, m.absence_minutes} : Present(v) => v >= 0
WithinSchedule(m) ==
    Present(m.scheduled_minutes) =>
        Present(m.absence_minutes) /\ m.absence_minutes <= m.scheduled_minutes

(* ------------------------------- C12 ---------------------------------- *)

\* C12: every stored daily fact has worked = regular + ot1 + ot2; a write
\* whose components do not sum to the worked total is rejected by
\* chk_minutes_consistency (the absence bound, checked before it, being
\* met), and a write whose components sum, with no other defect, is
\* accepted.
C12_WorkedIsSumOfComponents ==
    /\ \A r \in time_entries : SumsUp(r.minutes)
    /\ \A e \in EmployeeRows, d \in FactDates, m \in MinuteInputs :
         /\ (~SumsUp(m) /\ WithinSchedule(m)) => FactWrite(e, d, m).outcome = ChkConsistency
         /\ ~SumsUp(m) => FactWrite(e, d, m).outcome # OK
         /\ (SumsUp(m) /\ WithinSchedule(m) /\ NoneNegative(m)) =>
               FactWrite(e, d, m).outcome = OK

\* A fact with overtime is stored (regular 0 + ot1 1 = worked 1) and the
\* last write, whose components did not sum, was rejected.
C12_Witness ==
    /\ res.outcome = ChkConsistency
    /\ \E r \in time_entries :
         /\ r.minutes.worked_minutes = 1 /\ r.minutes.ot1_minutes = 1
         /\ r.minutes.regular_minutes = 0

(* ------------------------------- C13 ---------------------------------- *)

\* C13: a fact with a negative value in any minute field is rejected, by
\* chk_minutes_nonneg when the checks before it (absence bound, sum) are
\* met; every stored fact has all its present minute fields >= 0.
C13_NoNegativeMinutes ==
    /\ \A r \in time_entries : NoneNegative(r.minutes)
    /\ \A e \in EmployeeRows, d \in FactDates, m \in MinuteInputs :
         ~NoneNegative(m) =>
            /\ FactWrite(e, d, m).outcome # OK
            /\ (SumsUp(m) /\ WithinSchedule(m)) => FactWrite(e, d, m).outcome = ChkNonneg

\* The last write was rejected for a negative value while a fact is stored.
C13_Witness ==
    /\ res.outcome = ChkNonneg
    /\ time_entries # {}

(* ------------------------------- C14 ---------------------------------- *)

\* C14: with a schedule on the fact, absence minutes above the scheduled
\* minutes are rejected by chk_absenteeism_bounds, and absence minutes up to
\* the scheduled minutes, the boundary included, are accepted when the fact
\* has no other defect.
C14_AbsenceWithinSchedule ==
    /\ \A r \in time_entries :
         Present(r.minutes.scheduled_minutes) =>
            r.minutes.absence_minutes <= r.minutes.scheduled_minutes
    /\ \A e \in EmployeeRows, d \in FactDates, m \in MinuteInputs :
         (Present(m.scheduled_minutes) /\ Present(m.absence_minutes)) =>
            /\ m.absence_minutes > m.scheduled_minutes =>
                  FactWrite(e, d, m).outcome = ChkBounds
            /\ (m.absence_minutes <= m.scheduled_minutes /\ SumsUp(m) /\ NoneNegative(m)) =>
                  FactWrite(e, d, m).outcome = OK

\* A fact whose absence equals its schedule (1 = 1) is stored, and the last
\* write, with absence above the schedule, was rejected.
C14_Witness ==
    /\ res.outcome = ChkBounds
    /\ \E r \in time_entries :
         r.minutes.scheduled_minutes = 1 /\ r.minutes.absence_minutes = 1

(* ------------------------------- C15 ---------------------------------- *)

Replacement(old, m) ==
    WriteTimeEntryRow([NewTimeEntry(old.company_id, old.employee_id, NULL,
                                    old.work_date, m) EXCEPT !.id = old.id],
                      time_entries \ {old})

\* No two stored facts have the same (company, employee, day).
C16_OneFactPerDay ==
    \A a \in time_entries, b \in time_entries :
        (a.company_id = b.company_id /\ a.employee_id = b.employee_id
            /\ a.work_date = b.work_date) => a = b

\* A step that re-ingests a written day: when it is accepted the stored
\* fact of the day is replaced by the new fact, whole (every minute field
\* is the new one's) and valid as a fresh write must be, and it is the only
\* fact of the day; when it is refused the old fact stays as it was.
C16_ReplacedWhole ==
    res'.op = "update" =>
        IF res'.outcome = OK
        THEN \E old \in time_entries, m \in MinuteInputs :
                /\ Replacement(old, m).outcome = OK
                /\ Replacement(old, m).row.minutes = m
                /\ SumsUp(m) /\ NoneNegative(m) /\ WithinSchedule(m)
                /\ time_entries' = (time_entries \ {old}) \cup {Replacement(old, m).row}
                /\ Cardinality({r \in time_entries' :
                                   /\ r.company_id = old.company_id
                                   /\ r.employee_id = old.employee_id
                                   /\ r.work_date = old.work_date}) = 1
        ELSE time_entries' = time_entries

\* C16: re-ingesting a fact for an already written (company, employee, day)
\* replaces the old fact as a whole: afterwards exactly one fact exists for
\* the key and it is the new one, validated as a fresh write; a replacement
\* that fails validation leaves the old fact unchanged; at no time do two
\* facts exist for the same key.
C16_ReingestReplaces ==
    []C16_OneFactPerDay /\ [][C16_ReplacedWhole]_vars

\* A day written with worked 0 has been re-ingested with worked 1, overtime
\* and a schedule: the one stored fact is the new one, under the old id.
C16_Witness ==
    /\ res.op = "update" /\ res.outcome = OK
    /\ \E r \in time_entries :
         /\ r.id = 1 /\ r.minutes.worked_minutes = 1 /\ r.minutes.ot2_minutes = 1
         /\ r.minutes.scheduled_minutes = 1 /\ r.minutes.absence_minutes = 0
    /\ Cardinality(time_entries) = 1

(* ------------------------------- C17 ---------------------------------- *)

\* C17: a versioned record is never physically deleted: every record of
\* employee_assignment_history and of metric_configs present before a step
\* is present, under its id, after it.
C17_NeverDeleted ==
    [][ /\ \A r \in eah : r.id \in RowIds(eah')
        /\ \A r \in metric_configs : r.id \in RowIds(metric_configs') ]_vars

(* ------------------------------- C18 ---------------------------------- *)

\* C18: once created a versioned record never changes, except that the
\* effective_end of an open-ended record may be set: a record present before
\* and after a step is equal in both, or was open-ended and differs in its
\* effective_end only.
C18_ImmutableButClose ==
    [][ /\ \A old \in eah : \A new \in eah' :
             new.id = old.id =>
                \/ new = old
                \/ /\ old.effective_end = NULL
                   /\ new = [old EXCEPT !.effective_end = new.effective_end]
        /\ \A old \in metric_configs : \A new \in metric_configs' :
             new.id = old.id =>
                \/ new = old
                \/ /\ old.effective_to = NULL
                   /\ new = [old EXCEPT !.effective_to = new.effective_to]
      ]_vars

(* ------------------------------- C19 ---------------------------------- *)

\* In every reachable state: a time entry for an employee that is not in
\* employees is refused by the trigger, and the same entry, for an employee
\* that is there and a day not yet written, is accepted.
C19_EmployeeFirst ==
    \A e \in EmployeeIds, x \in ExternalInputs, d \in WorkDates :
        LET c == SelectEmployee(e).company_id
            w(cc) == WriteTimeEntryRow(NewTimeEntry(cc, e, x, d, DefaultMinutes),
                                       time_entries)
        IN /\ e \notin EmployeeRows =>
                \A cc \in CompanyInputs : w(cc).outcome = EmployeeMissing
           /\ (e \in EmployeeRows /\ FactsOf(c, e, d) = {}) =>
                w(c).outcome = OK /\ w(NULL).outcome = OK

\* Every time entry a step stores, new or rewritten, is of an employee that
\* exists at that step, and a refused write stores nothing.
C19_WrittenForKnownEmployee ==
    /\ \A r \in time_entries' \ time_entries : r.employee_id \in EmployeeRows
    /\ (res'.tbl = "time_entries" /\ res'.outcome # OK) => time_entries' = time_entries

\* C19: a time entry written for an employee that does not yet exist in
\* employees fails and stores nothing, the same entry is accepted after the
\* employee has been synced, and in any interleaving of employee sync and
\* time-entry ingestion every stored time entry refers to an employee that
\* existed when the entry was written.
C19_IngestionOrder ==
    []C19_EmployeeFirst /\ [][C19_WrittenForKnownEmployee]_vars

\* A time entry of a synced employee is stored, and the last write, for an
\* employee not yet synced, was refused.
C19_Witness ==
    /\ res.op = "insert" /\ res.tbl = "time_entries" /\ res.outcome = EmployeeMissing
    /\ \E r \in time_entries : r.employee_id \in EmployeeRows
    /\ EmployeeRows # EmployeeIds

(* ------------------------------- C20 ---------------------------------- *)

\* The chat was opened from 'Ask AI': auto-send asked for, a prompt given.
OpenedFromAskAI ==
    chat.mounted /\ chat.autoSendInitial /\ chat.initialPrompt = AskAIPrompt

\* The prompt has been sent: the message after the greeting is a user
\* message with the prompt, followed by the placeholder of an answer whose
\* stream was started.
PromptSent ==
    /\ chat.mounted /\ Len(chat.messages) >= 3
    /\ chat.messages[2].type = "user"
    /\ chat.messages[2].content = chat.initialPrompt
    /\ chat.messages[3].type = "ai"
    /\ \E i \in 1..Len(chat.sends) : chat.sends[i].assistant = chat.messages[3].id

\* C20: when the chat is mounted with autoSendInitial and the prompt of
\* 'Ask AI', eventually, without the user doing anything, a user message
\* with the prompt is appended after the greeting and a response stream is
\* started.
C20_InitialPromptSent ==
    [](OpenedFromAskAI => <>PromptSent)

(* ------------------------------- C21 ---------------------------------- *)

\* The messages stored for m, none when m has no session.
StoredMessages(index, m) ==
    IF index[m] = NoSession THEN <<>> ELSE index[m].messages

\* What getOrCreateSession(m) returned is the session stored for m.
C21_ReturnsStored ==
    cm.call.op = "getOrCreateSession" => cm.call.returned = cm.index[cm.call.metric]

\* A call other than clearSession(m) keeps the sessionId of m, and a call
\* other than appendMessage(m, ...) and clearSession(m) keeps its messages.
C21_SameUntilCleared ==
    \A m \in Metrics :
        (cm.index[m] # NoSession /\ ~(cm'.call.op = "clearSession" /\ cm'.call.metric = m))
            => /\ cm'.index[m] # NoSession
               /\ cm'.index[m].sessionId = cm.index[m].sessionId
               /\ ~(cm'.call.op = "appendMessage" /\ cm'.call.metric = m)
                     => cm'.index[m].messages = cm.index[m].messages

\* appendMessage(m, message) puts the message after the messages m had.
C21_AppendedLast ==
    (cm' # cm /\ cm'.call.op = "appendMessage") =>
        LET m == cm'.call.metric
            before == StoredMessages(cm.index, m)
            after == StoredMessages(cm'.index, m)
            last == after[Len(after)]
        IN /\ Len(after) = Len(before) + 1
           /\ \A i \in 1..Len(before) : after[i] = before[i]
           /\ last.type = cm'.call.message.type
           /\ last.content = cm'.call.message.content
           /\ cm'.call.message.id # NoId => last.id = cm'.call.message.id

\* clearSession(m) leaves no session of m, and getOrCreateSession(m) with no
\* session of m returns one with an id not issued before and no messages.
C21_ClearedStartsAnew ==
    \A m \in Metrics :
        /\ (cm'.call.op = "clearSession" /\ cm'.call.metric = m)
               => cm'.index[m] = NoSession
        /\ (cm.index[m] = NoSession /\ cm'.call.op = "getOrCreateSession"
              /\ cm'.call.metric = m /\ cm' # cm)
               => /\ cm'.call.returned.sessionId \notin 0..cm.issued
                  /\ cm'.call.returned.messages = <<>>
                  /\ cm'.index[m] = cm'.call.returned

C22_FixedOrder ==
    chat.mounted =>
        \A i \in 1..Len(chat.sends) :
            LET tried == chat.sends[i].tried
            IN /\ tried = SubSeq(Sources, 1, Len(tried))
               /\ \A k \in 1..(Len(tried) - 1) : tried[k] \in chat.sends[i].failed

\* The text appended to a message all comes from one source.
C22_OneSourcePerMessage ==
    chat.mounted =>
        \A k \in 1..Len(chat.messages) :
            \A a, b \in 1..Len(chat.messages[k].text) :
                chat.messages[k].text[a] = chat.messages[k].text[b]

\* The fallback UI spec is put only on a message that has no UI spec: it
\* never takes the place of one the server supplied.
C22_FallbackOnlyIfNone ==
    (chat.mounted /\ chat'.mounted) =>
        \A k \in 1..Len(chat.messages) :
            chat'.messages[k].uiSpec = buildDevFallbackSpec
                => chat.messages[k].uiSpec \in {NoUiSpec, buildDevFallbackSpec}

\* C22: for each send, the response sources are tried in the fixed order
\* /api/ai/chat/stream, /api/chat/stream, mock stream; a later source is
\* used only if every earlier one failed, a source that has appended text
\* to the assistant message is never followed by another source appending
\* to the same message, and the development fallback UI spec is attached
\* only when the server supplied none.
C22_SourcesInOrder ==
    /\ []C22_FixedOrder
    /\ []C22_OneSourcePerMessage
    /\ [][C22_FallbackOnlyIfNone]_vars

(* ------------------------------- C23 ---------------------------------- *)

\* C23: whenever a response stream that has not been aborted is still in
\* progress, isStreaming is true; also when a second send is issued with the
\* Enter key while an earlier stream is in flight and the earlier, aborted
\* send then finishes.
C23_StreamingWhileInProgress ==
    chat.mounted =>
        ((\E i \in 1..Len(chat.sends) :
              chat.sends[i].pc # "done" /\ ~chat.sends[i].aborted)
           => chat.isStreaming)

(* ------------------------------- C24 ---------------------------------- *)

\* The text of the messages with id assistantId.
TextOf(messages, assistantId) ==
    [k \in {n \in 1..Len(messages) : messages[n].id = assistantId} |-> messages[k].text]

\* No step appends text to the assistant message of a send the user stopped.
C24_StoppedStaysAsIs ==
    (chat.mounted /\ chat'.mounted) =>
        \A i \in 1..Len(chat.sends) :
            chat.sends[i].stopped =>
                TextOf(chat'.messages, chat.sends[i].assistant)
                    = TextOf(chat.messages, chat.sends[i].assistant)

\* C24: after the user presses Stop (the stream's AbortController is
\* aborted), no further text is appended to the assistant message of the
\* stopped send, whether the text was coming from a server stream or from
\* the mock stream.
C24_NoTextAfterStop ==
    [][C24_StoppedStaysAsIs]_vars

(* ------------------------------- C25 ---------------------------------- *)

\* The place in the list of the assistant placeholder of the i-th send:
\* after the greeting, each send appended a user message and a placeholder.
Placeholder(i) == 2 * i + 1

\* A step appends nothing, or a user message followed by an empty
\* assistant placeholder; a send with a blank input appends nothing.
C25_OnlyGrows ==
    /\ Len(chat'.messages) \in {Len(chat.messages), Len(chat.messages) + 2}
    /\ Len(chat'.messages) = Len(chat.messages) + 2 =>
          LET n == Len(chat.messages)
          IN /\ Len(chat'.sends) = Len(chat.sends) + 1
             /\ chat'.messages[n + 1].type = "user" /\ Trim(chat'.messages[n + 1].content) # ""
             /\ chat'.messages[n + 2].type = "ai" /\ chat'.messages[n + 2].content = ""
             /\ chat'.messages[n + 2].text = <<>>
             /\ chat'.sends[Len(chat'.sends)].assistant = chat'.messages[n + 2].id
    /\ (PressSend /\ Trim(chat.rendered.input) = "") => chat'.messages = chat.messages
    /\ (PressSend /\ Trim(chat.rendered.input) # "")
          => Len(chat'.messages) = Len(chat.messages) + 2

\* A message that a step changes is the placeholder of a send that took
\* the step.
C25_OnlyItsPlaceholder ==
    \A k \in 1..Len(chat.messages) :
        chat'.messages[k] # chat.messages[k] =>
            \E i \in 1..Len(chat.sends) :
                /\ k = Placeholder(i)
                /\ chat'.sends[i] # chat.sends[i]
                /\ chat.messages[k].id = chat.sends[i].assistant

\* C25: in the chat message list, after any sequence of sends and stream
\* events, the list only grows (each non-blank send appends a user message
\* followed by its assistant placeholder, a blank send appends nothing),
\* and text or UI spec streamed for a send changes only that send's
\* assistant placeholder: user messages and the assistant messages of other
\* sends are never modified.
C25_MessageListFrame ==
    [][(chat.mounted /\ chat'.mounted) => (C25_OnlyGrows /\ C25_OnlyItsPlaceholder)]_vars

(* ------------------------------- C26 ---------------------------------- *)

\* C26: once the dashboard's loading flag is false, exactly one of error
\* and cards is set (never both, never neither), and cards, when set, holds
\* exactly four cards in the fixed order headcount, absenteeism_rate,
\* turnover_rate, overtime_rate; also when the load effect runs twice
\* concurrently, as under React.StrictMode.
C26_ErrorOrCards ==
    (dash.mounted /\ ~dash.loading) =>
        /\ (dash.error # null) # (dash.cards # NoCards)
        /\ dash.cards # NoCards =>
              /\ Len(dash.cards) = 4
              /\ dash.cards[1].key = "headcount"
              /\ dash.cards[2].key = "absenteeism_rate"
              /\ dash.cards[3].key = "turnover_rate"
              /\ dash.cards[4].key = "overtime_rate"

(* ------------------------------- C27 ---------------------------------- *)

\* A call on metric m leaves what is stored for every other metric as it was.
C27_OtherMetricsKept ==
    \A m \in Metrics :
        (cm' # cm /\ cm'.call.metric # m) => cm'.index[m] = cm.index[m]

\* updateMessage(m, id, f) keeps the number of messages of m, and keeps
\* every message whose id is not id as it was, at its place.
C27_UpdateTouchesOnlyId ==
    (cm' # cm /\ cm'.call.op = "updateMessage") =>
        LET m == cm'.call.metric
            before == StoredMessages(cm.index, m)
            after == StoredMessages(cm'.index, m)
        IN /\ Len(after) = Len(before)
           /\ \A i \in 1..Len(before) :
                 before[i].id # cm'.call.id => after[i] = before[i]
           /\ cm'.call.returned = cm'.index[m]

\* C27: an operation of ContextManager on metric m (getOrCreateSession,
\* appendMessage, updateMessage, replaceMessages, clearSession) leaves the
\* persisted sessions of every other metric unchanged, and
\* updateMessage(m, id, f) changes only the messages whose id equals id,
\* keeping the number and order of messages.
C27_OnlyItsMetricOnlyItsMessage ==
    [][C27_OtherMetricsKept /\ C27_UpdateTouchesOnlyId]_vars

\* updateMessage rewrote one of two messages of a metric while the other
\* metric has a conversation stored.
C27_Witness ==
    /\ cm.call.op = "updateMessage"
    /\ Len(cm.call.returned.messages) = 2
    /\ \E i, j \in 1..2 :
          /\ cm.call.returned.messages[i].id = cm.call.id
          /\ cm.call.returned.messages[i].content = "b"
          /\ cm.call.returned.messages[j].id # cm.call.id
          /\ cm.call.returned.messages[j].content = "a"
    /\ \E m \in Metrics : m # cm.call.metric /\ StoredMessages(cm.index, m) # <<>>

(* ------------------------------- C28 ---------------------------------- *)

\* Every stored fact with a schedule has an absence value between 0 and
\* the schedule, and a fact written with a schedule and no absence value
\* is rejected by chk_absenteeism_bounds.
C28_ScheduledHasAbsence ==
    /\ \A r \in time_entries :
         Present(r.minutes.scheduled_minutes) =>
            /\ Present(r.minutes.absence_minutes)
            /\ 0 <= r.minutes.absence_minutes
            /\ r.minutes.absence_minutes <= r.minutes.scheduled_minutes
    /\ \A e \in EmployeeRows, d \in FactDates, m \in MinuteInputs :
         (Present(m.scheduled_minutes) /\ ~Present(m.absence_minutes)) =>
            FactWrite(e, d, m).outcome = ChkBounds

\* A rejected write leaves the stored facts as they were.
C28_RejectedStoresNothing ==
    (res'.tbl = "time_entries" /\ res'.outcome = ChkBounds) => time_entries' = time_entries

\* C28: every stored time entry that has scheduled_minutes set also has
\* absence_minutes set, with 0 <= absence_minutes <= scheduled_minutes: a
\* write with a schedule but no absence value is rejected.
C28_ScheduleNeedsAbsence ==
    []C28_ScheduledHasAbsence /\ [][C28_RejectedStoresNothing]_vars

\* A fact with a schedule and no absence at all (0 of 1) is stored, and the
\* last write was rejected by the absence bound.
C28_Witness ==
    /\ res.tbl = "time_entries" /\ res.outcome = ChkBounds
    /\ \E r \in time_entries :
         r.minutes.scheduled_minutes = 1 /\ r.minutes.absence_minutes = 0

(* ------------------------------- C29 ---------------------------------- *)

\* C29: every employee_assignment_history record carries the tenant
\* (company_id) of the employee it refers to, so that for a fixed employee
\* the effective intervals of all its assignment records are pairwise
\* non-overlapping whatever company_id the writer supplies.
C29_AssignmentOfEmployeeTenant ==
    /\ \A r \in eah : r.company_id = employees[r.employee_id].company_id
    /\ \A a \in eah, b \in eah :
         (a.id # b.id /\ a.employee_id = b.employee_id) => ~OverlapsEAH(a, b)

(* ------------------------------- C30 ---------------------------------- *)

\* chatContext is set only while chatMetric is, and the dialog is open
\* exactly when chatMetric is set.
C30_ContextWithMetric ==
    dash.mounted =>
        /\ dash.chatContext # null => dash.chatMetric # null
        /\ DialogOpen(dash) <=> dash.chatMetric # null

\* A step that closes the dialog resets chatMetric and chatContext.
C30_ClosingResetsBoth ==
    (dash.mounted /\ DialogOpen(dash) /\ ~DialogOpen(dash'))
        => (dash'.chatMetric = null /\ dash'.chatContext = null)

\* C30: in the Dashboard, after any sequence of Ask AI clicks, Escape
\* presses, backdrop clicks and chat closes, chatContext is non-null only
\* while chatMetric is non-null, the chat dialog is open exactly when
\* chatMetric is non-null, and every way of closing the dialog resets both
\* chatMetric and chatContext to null.
C30_ChatStateTogether ==
    []C30_ContextWithMetric /\ [][C30_ClosingResetsBoth]_vars

\* The dialog, opened from a card, was closed with Escape.
C30_Witness ==
    /\ dash.mounted /\ dash.event = "Escape"
    /\ ~DialogOpen(dash) /\ dash.chatMetric = null /\ dash.chatContext = null
    /\ CardsShown(dash)

====
